---- MODULE Spec2Model ----
(***************************************************************************)
(* Model of the workflow engine of forge_agents: the per-workflow state     *)
(* store with its timeout-based advisory lock (state/doc_sync_state.rs),    *)
(* the event bus (events/mod.rs) and the documentation-sync saga driven by  *)
(* the coordinator and its collaborators (agents/*.rs, core/behavior.rs).   *)
(*                                                                         *)
(* Strings that the code builds or compares piecewise (event names) are     *)
(* sequences of tokens, so that format!/starts_with/== are computed.        *)
(* Time is the value of SystemTime::now() in abstract units; the clock is   *)
(* assumed not to go backwards.                                             *)
(***************************************************************************)
EXTENDS FiniteSets, Integers, Sequences, TLC

\* ---------------------------------------------------------------- bounds
MaxTime == 2          \* the clock is observed at 0..MaxTime
MaxHistory == 1       \* cap on the length of iteration_history
MaxHandlers == 3      \* cap on the number of register_handler calls
MaxTasks == 3         \* cap on the number of SyncTasks of a workflow
MaxIter == 2          \* max_iterations is drawn from 1..MaxIter
MaxOps == 2           \* cap on the number of operations of an Execute batch
MaxModules == 2       \* cap on the number of behaviour modules of an agent
MaxLen == 2           \* cap on the length of a pattern and of a name
MaxLog == 3           \* cap on the number of entries of an execution log
MaxMessages == 2      \* cap on the number of messages of a Context
MaxRounds == 3       \* VerificationComplete events handled one after another

Threads == {"t1", "t2"}
Ids == {"wf1"}

\* lock_timeout of the StateManager, in clock units
LockTimeout == 2

\* ------------------------------------------------------------- variables
VARIABLES
    now,        \* SystemTime::now()
    locks,      \* StateManager.locks : HashMap<String, SystemTime>
    file,       \* <state_dir>/<id>.json : content of each existing file
    disk,       \* the documentation tree: content of each existing file
    pc,         \* position of each thread inside the operation it runs
    loc,        \* locals of the operation each thread runs
    last,       \* the step taken last: operation, id, result
    owner,      \* history: who took the lock of each id last, and when
    committed,  \* history: the document last written completely, per id
    handlers,   \* EventSystem.handlers : HashMap<String, Vec<EventHandler>>
    mutex,      \* the Mutex around handlers: "free", its holder, "poisoned"
    em,         \* the emit each thread runs: event, handlers to go, trace
    regs        \* history: the register_handler calls, in call order

storeVars == <<now, disk, locks, file, owner, committed>>
busVars == <<handlers, mutex, em, regs>>
vars == <<now, disk, locks, file, owner, committed, pc, loc, last, handlers, mutex, em, regs>>

\* ------------------------------------------------------------ HashMap ops
EmptyMap == [k \in {} |-> 0]
Put(m, k, v) == [j \in DOMAIN m \cup {k} |-> IF j = k THEN v ELSE m[j]]
Remove(m, k) == [j \in DOMAIN m \ {k} |-> m[j]]

\* -------------------------------------------------------- DocSyncState
DefaultState(t) ==
    [ master_doc_map |-> {},
      pending_tasks |-> <<>>,
      completed_tasks |-> <<>>,
      error_log |-> <<>>,
      quality_scores |-> "None",
      metadata |-> EmptyMap,
      last_updated |-> t,
      current_iteration |-> 1,
      max_iterations |-> 5,
      iteration_history |-> <<>>,
      requirements_satisfied |-> EmptyMap ]

\* the state start_synchronization persists for a new workflow
InitialState(t) ==
    [ DefaultState(t) EXCEPT !.metadata =
        [ source_path |-> "src", target_path |-> "tgt",
          scope |-> "full", status |-> "initializing" ] ]

SetStatus(st, s) == [st EXCEPT !.metadata = Put(st.metadata, "status", s)]

SyncTask(id, type, agent) ==
    [task_id |-> id, task_type |-> type, status |-> "pending", assigned_to |-> agent]

\* uuid::Uuid::new_v4() in a task_id: an id no task of the state has
NewTaskId(st) == Len(st.pending_tasks) + Len(st.completed_tasks) + 1

\* content of a file that File::create has truncated and write_all has not
\* (completely) filled: not a JSON document
Truncated == [truncated |-> TRUE]

\* ------------------------------------------- update closures of the agents
\* a closure passed to update_state: which one, and the doc_map it captured
Fn(name, doc_map) == [name |-> name, doc_map |-> doc_map]
NoFn == Fn("none", {})

\* closure of handle_start_event
start_update(st) ==
    [ SetStatus(st, "analyzing_content") EXCEPT !.pending_tasks =
        Append(st.pending_tasks,
               SyncTask(NewTaskId(st), "content_analysis", "doc-content-syncer")) ]

\* closure of handle_content_analyzed_event / handle_docusaurus_analyzed_event:
\* take the payload's doc_map, move the tasks of the finished phase to
\* completed_tasks, set the status and push the task of the next phase
IsType(type, task) == task.task_type = type

phase_update(st, doc_map, done, status, next, agent) ==
    LET finished == SelectSeq(st.pending_tasks, LAMBDA k : IsType(done, k))
        others == SelectSeq(st.pending_tasks, LAMBDA k : ~IsType(done, k))
    IN [ SetStatus(st, status) EXCEPT
           !.master_doc_map = doc_map,
           !.completed_tasks = st.completed_tasks \o
               [i \in 1..Len(finished) |-> [finished[i] EXCEPT !.status = "completed"]],
           !.pending_tasks = Append(others, SyncTask(NewTaskId(st), next, agent)) ]

\* the closure update_state is called with; "panics" never returns
ApplyFn(fn, st) ==
    CASE fn.name = "start" -> start_update(st)
      [] fn.name = "content_analyzed" ->
            phase_update(st, fn.doc_map, "content_analysis", "analyzing_docusaurus",
                         "docusaurus_analysis", "docusaurus-expert")
      [] fn.name = "docusaurus_analyzed" ->
            phase_update(st, fn.doc_map, "docusaurus_analysis", "analyzing_ui",
                         "ui_analysis", "ui-design-expert")
      [] fn.name = "executing" -> SetStatus(st, "executing")
      [] fn.name = "execution_complete" ->
            [ SetStatus(st, "execution_complete") EXCEPT !.metadata =
                Put(SetStatus(st, "execution_complete").metadata, "execution_summary", "summary") ]
      [] fn.name = "verifying" -> SetStatus(st, "verifying")
      [] fn.name = "verification_complete" ->
            [ SetStatus(st, "verification_complete") EXCEPT !.metadata =
                Put(SetStatus(st, "verification_complete").metadata, "verification_summary", "summary") ]
      [] OTHER -> st

FnPanics(fn) == fn.name = "panics"

\* the closures the threads of the model call update_state with: those of
\* the runner and the verifier, and a caller's closure that panics
UpdateFns == {Fn("executing", {}), Fn("verifying", {}), Fn("panics", {})}

\* ------------------------------------------------------------ StateManager
\* read_state: NotFound, a deserialization error, or the state
read_state(f, id) ==
    IF id \notin DOMAIN f THEN [res |-> "NotFound", val |-> <<>>]
    ELSE IF f[id] = Truncated THEN [res |-> "JsonSerialization", val |-> <<>>]
    ELSE [res |-> "Ok", val |-> <<f[id]>>]

\* variant of the expiry test: an entry as old as the timeout is still valid
LockExpired_late(lk, id, t) == t - lk[id] > LockTimeout
\* lock_state: fails while an unexpired entry exists, else (re)places it
LockExpired(lk, id, t) == t - lk[id] >= LockTimeout

\* variant of lock_state: a refused call refreshes the entry
lock_state_refresh(lk, id, t) ==
    IF id \in DOMAIN lk /\ ~LockExpired(lk, id, t)
    THEN [res |-> "LockError", locks |-> Put(lk, id, t)]
    ELSE [res |-> "Ok", locks |-> Put(lk, id, t)]
lock_state(lk, id, t) ==
    IF id \in DOMAIN lk /\ ~LockExpired(lk, id, t)
    THEN [res |-> "LockError", locks |-> lk]
    ELSE [res |-> "Ok", locks |-> Put(lk, id, t)]

unlock_state(lk, id) == Remove(lk, id)

\* variant of the filter: an entry as old as the timeout is kept
ExpiredKeys_late(lk, t) == {k \in DOMAIN lk : t - lk[k] > LockTimeout}
ExpiredKeys(lk, t) == {k \in DOMAIN lk : t - lk[k] >= LockTimeout}

cleanup_expired_locks(lk, t) ==
    [res |-> Cardinality(ExpiredKeys(lk, t)),
     locks |-> [k \in DOMAIN lk \ ExpiredKeys(lk, t) |-> lk[k]]]

\* ------------------------------------------------ IterationDecisionModule
\* a JSON value of the verification payload
JBool(b) == [kind |-> "bool", b |-> b, n |-> 0]
JNum(n) == [kind |-> "num", b |-> FALSE, n |-> n]     \* n in tenths
JStr == [kind |-> "str", b |-> FALSE, n |-> 0]

\* the fixed threshold 0.7, in tenths
Threshold == 7

\* variant of the requirement test: a number equal to the threshold passes
is_satisfied_incl(vr, req_key, required_value) ==
    IF req_key \in DOMAIN vr
    THEN IF vr[req_key].kind = "bool" THEN vr[req_key].b = required_value
         ELSE IF vr[req_key].kind = "num" THEN vr[req_key].n >= Threshold
         ELSE FALSE
    ELSE FALSE
is_satisfied(vr, req_key, required_value) ==
    IF req_key \in DOMAIN vr
    THEN IF vr[req_key].kind = "bool" THEN vr[req_key].b = required_value
         ELSE IF vr[req_key].kind = "num" THEN vr[req_key].n > Threshold
         ELSE FALSE
    ELSE FALSE

\* variant of the decision: the last iteration may still continue
evaluate_requirements_incl(vr, requirements, current_iteration, max_iterations) ==
    LET satisfied == [k \in DOMAIN requirements |-> is_satisfied(vr, k, requirements[k])]
        all_satisfied == \A k \in DOMAIN requirements : satisfied[k]
    IN [continue_iteration |-> ~all_satisfied /\ current_iteration <= max_iterations,
        satisfied |-> satisfied]
evaluate_requirements(vr, requirements, current_iteration, max_iterations) ==
    LET satisfied == [k \in DOMAIN requirements |-> is_satisfied(vr, k, requirements[k])]
        all_satisfied == \A k \in DOMAIN requirements : satisfied[k]
    IN [continue_iteration |-> ~all_satisfied /\ current_iteration < max_iterations,
        satisfied |-> satisfied]

\* the state handle_verification_complete writes back
verification_complete_update(st, vr, t) ==
    LET d == evaluate_requirements(vr, st.requirements_satisfied,
                                   st.current_iteration, st.max_iterations)
        it == [iteration_number |-> st.current_iteration,
               timestamp |-> t,
               verification_results |-> d.satisfied,
               tasks_completed |-> Len(st.completed_tasks),
               tasks_pending |-> Len(st.pending_tasks),
               issues_found |-> Len(st.error_log)]
    IN [st EXCEPT !.requirements_satisfied = d.satisfied,
                  !.iteration_history = Append(st.iteration_history, it),
                  !.current_iteration = IF d.continue_iteration THEN @ + 1 ELSE @]

\* ------------------------------------------------------------ event names
\* doc_sync_events::events and events::DOCS_*, as token sequences
DOCS_START == <<"docs-", "start">>
DOCS_ANALYZE_CONTENT == <<"docs-", "analyze-", "content">>
DOCS_CONTENT_ANALYZED == <<"docs-", "content-", "analyzed">>
DOCS_ANALYZE_DOCUSAURUS == <<"docs-", "analyze-", "docusaurus">>
DOCS_DOCUSAURUS_ANALYZED == <<"docs-", "docusaurus-", "analyzed">>
DOCS_ANALYZE_UI == <<"docs-", "analyze-", "ui">>
DOCS_UI_ANALYZED == <<"docs-", "ui-", "analyzed">>
DOCS_ANALYZE_CSS == <<"docs-", "analyze-", "css">>
DOCS_CSS_ANALYZED == <<"docs-", "css-", "analyzed">>
DOCS_EXECUTE == <<"docs-", "execute">>
DOCS_EXECUTION_COMPLETE == <<"docs-", "execution-", "complete">>
DOCS_VERIFY == <<"docs-", "verify">>
DOCS_VERIFICATION_COMPLETE == <<"docs-", "verification-", "complete">>
DOCS_COMPLETE == <<"docs-", "complete">>
DOCS_PLAN_CHANGES == <<"docs-", "plan-", "changes">>
DOCS_CHANGES_PLANNED == <<"docs-", "changes-", "planned">>
DOCS_IMPLEMENT_CHANGES == <<"docs-", "implement-", "changes">>
DOCS_IMPLEMENTATION_COMPLETE == <<"docs-", "implementation-", "complete">>
DOCS_ITERATION_DECISION == <<"docs-", "iteration-", "decision">>
DOCS_ITERATION_COMPLETE == <<"docs-", "iteration-", "complete">>
NoName == <<>>

\* CoordinatorModule.coordination_map after setup_feedback_loop_mappings
FeedbackLoopMappings ==
    [e \in {DOCS_VERIFICATION_COMPLETE, DOCS_PLAN_CHANGES, DOCS_CHANGES_PLANNED,
            DOCS_IMPLEMENT_CHANGES, DOCS_IMPLEMENTATION_COMPLETE,
            DOCS_ITERATION_DECISION} |->
        CASE e = DOCS_VERIFICATION_COMPLETE -> DOCS_PLAN_CHANGES
          [] e = DOCS_PLAN_CHANGES -> DOCS_CHANGES_PLANNED
          [] e = DOCS_CHANGES_PLANNED -> DOCS_IMPLEMENT_CHANGES
          [] e = DOCS_IMPLEMENT_CHANGES -> DOCS_IMPLEMENTATION_COMPLETE
          [] e = DOCS_IMPLEMENTATION_COMPLETE -> DOCS_VERIFY
          [] OTHER -> DOCS_ITERATION_COMPLETE]

\* get_next_event; NoName stands for None
get_next_event(map, e) == IF e \in DOMAIN map THEN map[e] ELSE NoName

\* ----------------------------------------------------------------- events
\* Event::DocSync(DocSyncEvent) and Event::Custom{name, payload}.  key is
\* event_type or name; payload is the DocSyncPayload variant; shape_ok tells
\* whether a Custom payload deserializes into what its consumer expects.
DocSync(event_type, payload, cid, doc_map) ==
    [variant |-> "DocSync", key |-> event_type, payload |-> payload,
     cid |-> cid, doc_map |-> doc_map, shape_ok |-> FALSE]
Custom(name, shape_ok) ==
    [variant |-> "Custom", key |-> name, payload |-> "json",
     cid |-> "none", doc_map |-> {}, shape_ok |-> shape_ok]
NoEvent == Custom(NoName, FALSE)

\* Event::name
EventName(ev) ==
    IF ev.variant = "DocSync" THEN <<"doc_sync.">> \o ev.key ELSE ev.key

\* event.payload() parsed by serde into the consumer's payload struct: the
\* serialized DocSyncEvent has none of that struct's fields at its top level
PayloadParses(ev) == ev.variant = "Custom" /\ ev.shape_ok

\* -------------------------------------------------------------- handlers
\* a registered closure: the serial number of its registration and its kind
Handler(id, kind) == [id |-> id, kind |-> kind]

\* variant of register_handler: the handler is put in front of the list
register_handler_front(tbl, name, h) ==
    Put(tbl, name, <<h>> \o (IF name \in DOMAIN tbl THEN tbl[name] ELSE <<>>))
\* register_handler: entry(name).or_insert_with(Vec::new).push(handler)
register_handler(tbl, name, h) ==
    Put(tbl, name, Append(IF name \in DOMAIN tbl THEN tbl[name] ELSE <<>>, h))

\* variant of the lookup: a name without entry falls back to <prefix>*
HandlersFor_pattern(tbl, name) ==
    IF name \in DOMAIN tbl THEN tbl[name]
    ELSE IF name # <<>> /\ <<Head(name), "*">> \in DOMAIN tbl THEN tbl[<<Head(name), "*">>]
    ELSE <<>>
\* handlers.get(&event_name), an absent entry giving nothing to call
HandlersFor(tbl, name) == IF name \in DOMAIN tbl THEN tbl[name] ELSE <<>>

\* the table after initialize() of the coordinator, the four analyzers, the
\* runner and the verifier, in this order
AgentRegistrations ==
    << [name |-> DOCS_START, kind |-> "coord_start"],
       [name |-> DOCS_CONTENT_ANALYZED, kind |-> "coord_content_analyzed"],
       [name |-> DOCS_DOCUSAURUS_ANALYZED, kind |-> "coord_docusaurus_analyzed"],
       [name |-> DOCS_UI_ANALYZED, kind |-> "coord_stub"],
       [name |-> DOCS_CSS_ANALYZED, kind |-> "coord_stub"],
       [name |-> DOCS_EXECUTION_COMPLETE, kind |-> "coord_stub"],
       [name |-> DOCS_VERIFICATION_COMPLETE, kind |-> "coord_stub"],
       [name |-> DOCS_ANALYZE_CONTENT, kind |-> "analyzer"],
       [name |-> DOCS_ANALYZE_DOCUSAURUS, kind |-> "analyzer"],
       [name |-> DOCS_ANALYZE_UI, kind |-> "analyzer"],
       [name |-> DOCS_ANALYZE_CSS, kind |-> "analyzer"],
       [name |-> DOCS_EXECUTE, kind |-> "runner"],
       [name |-> DOCS_VERIFY, kind |-> "verifier"] >>

RECURSIVE RegisterAll(_, _, _)
RegisterAll(tbl, rs, i) ==
    IF i > Len(rs) THEN tbl
    ELSE RegisterAll(register_handler(tbl, rs[i].name, Handler(i, rs[i].kind)), rs, i + 1)

\* update_state run to its end in one piece, as a handler on the emitting
\* thread runs it: lock, read (or default), closure, stamp, write, unlock.
\* s is the store: locks, file and the two history maps.
update_state(s, id, fn, t) ==
    LET l == lock_state(s.locks, id, t)
        r == read_state(s.file, id)
        st == IF r.res = "Ok" THEN r.val[1] ELSE DefaultState(t)
        new == [ApplyFn(fn, st) EXCEPT !.last_updated = t]
        unlocked == [s EXCEPT !.locks = unlock_state(l.locks, id),
                              !.owner = Remove(s.owner, id)]
    IN IF l.res # "Ok" THEN [res |-> l.res, store |-> s]
       ELSE IF r.res \notin {"Ok", "NotFound"} THEN [res |-> r.res, store |-> unlocked]
       ELSE [res |-> "Ok",
             store |-> [unlocked EXCEPT !.file = Put(s.file, id, new),
                                        !.committed = Put(s.committed, id, new)]]

\* what the call of a registered closure does: its result ("Ok", "Err", or
\* "emit" when it gets as far as calling emit itself, with the event), and
\* the store it leaves
Out(res, next, store) == [res |-> res, next |-> next, store |-> store]

\* variant of handle_start_event: the result of update_state is dropped
handle_start_event_unchecked(ev, s, t) ==
    LET u == update_state(s, ev.cid, Fn("start", {}), t) IN
    IF ev.payload # "Start" THEN {Out("Err", NoEvent, s)}
    ELSE {Out("emit", DocSync(DOCS_ANALYZE_CONTENT, "AnalyzeContent", ev.cid, {}), u.store)}
\* DocCoordinatorAgent::handle_start_event
handle_start_event(ev, s, t) ==
    LET u == update_state(s, ev.cid, Fn("start", {}), t) IN
    IF ev.payload # "Start" THEN {Out("Err", NoEvent, s)}
    ELSE IF u.res # "Ok" THEN {Out("Err", NoEvent, u.store)}
    ELSE {Out("emit", DocSync(DOCS_ANALYZE_CONTENT, "AnalyzeContent", ev.cid, {}), u.store)}

\* handle_content_analyzed_event / handle_docusaurus_analyzed_event
handle_analyzed_event(ev, s, t, expect, fn, next_type, next_payload) ==
    LET u == update_state(s, ev.cid, Fn(fn, ev.doc_map), t)
        r == read_state(u.store.file, ev.cid) IN
    IF ev.payload # expect THEN {Out("Err", NoEvent, s)}
    ELSE IF u.res # "Ok" \/ r.res # "Ok" THEN {Out("Err", NoEvent, u.store)}
    ELSE IF "target_path" \notin DOMAIN r.val[1].metadata THEN {Out("Err", NoEvent, u.store)}
    ELSE {Out("emit", DocSync(next_type, next_payload, ev.cid, ev.doc_map), u.store)}

\* DocRunnerAgent::handle_execute_event: the batch either fails validation
\* after the first update, or is executed and reported
handle_execute_event(ev, s, t) ==
    LET u == update_state(s, ev.cid, Fn("executing", {}), t)
        v == update_state(u.store, ev.cid, Fn("execution_complete", {}), t) IN
    IF ev.payload # "Execute" THEN {Out("Err", NoEvent, s)}
    ELSE IF u.res # "Ok" THEN {Out("Err", NoEvent, u.store)}
    ELSE {Out("Err", NoEvent, u.store)} \cup
         (IF v.res # "Ok" THEN {Out("Err", NoEvent, v.store)}
          ELSE {Out("emit", DocSync(DOCS_EXECUTION_COMPLETE, "ExecutionComplete",
                                    ev.cid, ev.doc_map), v.store)})

\* DocVerifierAgent::handle_verify_event
handle_verify_event(ev, s, t) ==
    LET u == update_state(s, ev.cid, Fn("verifying", {}), t)
        r == read_state(u.store.file, ev.cid)
        v == update_state(u.store, ev.cid, Fn("verification_complete", {}), t) IN
    IF ev.payload # "Verify" THEN {Out("Err", NoEvent, s)}
    ELSE IF u.res # "Ok" \/ r.res # "Ok" THEN {Out("Err", NoEvent, u.store)}
    ELSE IF {"source_path", "target_path"} \ DOMAIN r.val[1].metadata # {}
    THEN {Out("Err", NoEvent, u.store)}
    ELSE IF v.res # "Ok" THEN {Out("Err", NoEvent, v.store)}
    ELSE {Out("emit", DocSync(DOCS_VERIFICATION_COMPLETE, "VerificationComplete",
                              ev.cid, ev.doc_map), v.store)}

\* the analyzers' handle_analyze_*_event: parse the payload, check the path,
\* analyze (either may fail), then emit the *_ANALYZED event as Custom
handle_analyze_event(ev, s, answer) ==
    IF ~PayloadParses(ev) THEN {Out("Err", NoEvent, s)}
    ELSE {Out("Err", NoEvent, s), Out("emit", Custom(answer, TRUE), s)}

AnswerOf(name) ==
    CASE name = DOCS_ANALYZE_CONTENT -> DOCS_CONTENT_ANALYZED
      [] name = DOCS_ANALYZE_DOCUSAURUS -> DOCS_DOCUSAURUS_ANALYZED
      [] name = DOCS_ANALYZE_UI -> DOCS_UI_ANALYZED
      [] OTHER -> DOCS_CSS_ANALYZED

\* a closure of the coordinator, the runner or the verifier: it acts on
\* Event::DocSync only, logs the error of its handle_* and returns Ok
Swallow(outs) == {[o EXCEPT !.res = IF o.res = "Err" THEN "Ok" ELSE o.res] : o \in outs}

\* the closure registered as h, called with ev under the name it was found at
Closure(h, name, ev, s, t) ==
    CASE h.kind = "ok" -> {Out("Ok", NoEvent, s)}
      [] h.kind = "err" -> {Out("Err", NoEvent, s)}
      [] h.kind = "analyzer" -> handle_analyze_event(ev, s, AnswerOf(name))
      [] OTHER ->
            IF ev.variant # "DocSync" THEN {Out("Ok", NoEvent, s)}
            ELSE CASE h.kind = "coord_start" -> Swallow(handle_start_event(ev, s, t))
                   [] h.kind = "coord_content_analyzed" ->
                        Swallow(handle_analyzed_event(ev, s, t, "ContentAnalyzed",
                            "content_analyzed", DOCS_ANALYZE_DOCUSAURUS, "AnalyzeDocusaurus"))
                   [] h.kind = "coord_docusaurus_analyzed" ->
                        Swallow(handle_analyzed_event(ev, s, t, "DocusaurusAnalyzed",
                            "docusaurus_analyzed", DOCS_ANALYZE_UI, "AnalyzeUi"))
                   [] h.kind = "runner" -> Swallow(handle_execute_event(ev, s, t))
                   [] h.kind = "verifier" -> Swallow(handle_verify_event(ev, s, t))
                   [] OTHER -> {Out("Ok", NoEvent, s)}

\* variant of the loop: it goes on whatever the handler returned
emit_step_on(rest, r) ==
    [res |-> IF rest = <<>> THEN "Ok" ELSE "running", todo |-> rest]
\* the for loop of emit after a handler returned r: `?` leaves on an error
emit_step(rest, r) ==
    IF r = "Err" THEN [res |-> "HandlerError", todo |-> rest]
    ELSE [res |-> IF rest = <<>> THEN "Ok" ELSE "running", todo |-> rest]

\* ---------------------------------------------------------------- helpers
\* the locals of handle_execute_event: the batch, the index of the operation
\* to execute next, execution_log and execution_results
NoRun ==
    [operations |-> <<>>, dry_run |-> FALSE, next |-> 1, log |-> <<>>,
     results |-> [successful_operations |-> 0, failed_operations |-> 0,
                  skipped_operations |-> 0]]

\* no agent built
NoAgent == [behavior_modules |-> <<>>, event_subscriptions |-> <<>>]

NoLoc == [op |-> "none", id |-> "none", fn |-> NoFn, st |-> <<>>,
          res |-> "none", aux |-> NoName, continue_iteration |-> FALSE,
          run |-> NoRun, agent |-> NoAgent]
NoEm == [ev |-> NoEvent, todo |-> <<>>, invoked |-> <<>>, res |-> "none", ret |-> "idle"]
Step(op, id, res) == [op |-> op, id |-> id, res |-> res]
Internal == Step("internal", "none", "none")

Idle(t) == pc[t] = "idle"
Goto(t, l) == pc' = [pc EXCEPT ![t] = l]
SetLoc(t, l) == loc' = [loc EXCEPT ![t] = l]
Return(t, op, id, res) ==
    /\ Goto(t, "idle")
    /\ SetLoc(t, NoLoc)
    /\ last' = Step(op, id, res)

Store == [locks |-> locks, file |-> file, owner |-> owner, committed |-> committed]
Acquired(t) == [by |-> t, at |-> now]

\* an id no operation has left a trace of: what generate_correlation_id gives
Fresh(id) ==
    /\ id \notin DOMAIN file
    /\ id \notin DOMAIN locks
    /\ \A t \in Threads : loc[t].id # id

\* ------------------------------------------------------------------- Init
Init ==
    /\ now = 0
    /\ disk = EmptyMap
    /\ locks = EmptyMap
    /\ file = EmptyMap
    /\ owner = EmptyMap
    /\ committed = EmptyMap
    /\ pc = [t \in Threads |-> "idle"]
    /\ loc = [t \in Threads |-> NoLoc]
    /\ last = Internal
    /\ handlers = RegisterAll(EmptyMap, AgentRegistrations, 1)
    /\ mutex = "free"
    /\ em = [t \in Threads |-> NoEm]
    /\ regs = [i \in 1..Len(AgentRegistrations) |-> AgentRegistrations[i]]

\* the clock advances
Tick ==
    /\ now < MaxTime
    /\ now' = now + 1
    /\ last' = Internal
    /\ UNCHANGED <<disk, locks, file, owner, committed, pc, loc, busVars>>

\* ------------------------------------------- lock_state / unlock_state API
LockState(t, id) ==
    /\ Idle(t)
    /\ LET r == lock_state(locks, id, now) IN
        /\ locks' = r.locks
        /\ last' = Step("lock_state", id, r.res)
        /\ owner' = IF r.res = "Ok" THEN Put(owner, id, Acquired(t)) ELSE owner
    /\ UNCHANGED <<now, disk, file, committed, pc, loc, busVars>>

UnlockState(t, id) ==
    /\ Idle(t)
    /\ locks' = unlock_state(locks, id)
    /\ owner' = Remove(owner, id)
    /\ last' = Step("unlock_state", id, "Ok")
    /\ UNCHANGED <<now, disk, file, committed, pc, loc, busVars>>

CleanupExpiredLocks(t) ==
    /\ Idle(t)
    /\ LET r == cleanup_expired_locks(locks, now) IN
        /\ locks' = r.locks
        /\ last' = Step("cleanup_expired_locks", "none", r.res)
    /\ UNCHANGED <<now, disk, file, owner, committed, pc, loc, busVars>>

\* ------------------------------------------------------------ read_state
ReadState(t, id) ==
    /\ Idle(t)
    /\ last' = Step("read_state", id, read_state(file, id).res)
    /\ UNCHANGED <<now, disk, locks, file, owner, committed, pc, loc, busVars>>

\* ---------------------------------------------------------- write_state
\* first half: File::create truncates or creates the file (or fails)
WriteCreate(t, id, io_ok) ==
    /\ file' = IF io_ok THEN Put(file, id, Truncated) ELSE file
    /\ UNCHANGED committed

\* second half: write_all puts the document (or fails and leaves a part)
WriteAll(t, io_ok) ==
    /\ file' = IF io_ok THEN Put(file, loc[t].id, loc[t].st[1]) ELSE file
    /\ committed' = IF io_ok THEN Put(committed, loc[t].id, loc[t].st[1]) ELSE committed

\* ----------------------------------------------- update_state, step by step
InUpdate(t) == pc[t] \in {"us_read", "us_create", "us_write", "us_unlock"}

\* lock_state(id)?: a caller that cannot lock gets LockError at once
UpdateLock(t, id, fn) ==
    /\ Idle(t)
    /\ LET r == lock_state(locks, id, now) IN
        /\ locks' = r.locks
        /\ IF r.res = "Ok"
           THEN /\ owner' = Put(owner, id, Acquired(t))
                /\ Goto(t, "us_read")
                /\ SetLoc(t, [NoLoc EXCEPT !.op = "update_state", !.id = id, !.fn = fn])
                /\ last' = Internal
           ELSE /\ last' = Step("update_state", id, r.res)
                /\ UNCHANGED <<owner, pc, loc>>
    /\ UNCHANGED <<now, disk, file, committed, busVars>>

\* read_state (NotFound gives the default; another error unlocks and
\* returns), then update_fn, which may panic, then the timestamp
UpdateReadApply(t) ==
    /\ pc[t] = "us_read"
    /\ LET id == loc[t].id
           r == read_state(file, id)
           st == IF r.res = "Ok" THEN r.val[1] ELSE DefaultState(now)
       IN IF r.res \notin {"Ok", "NotFound"}
          THEN /\ locks' = unlock_state(locks, id)
               /\ owner' = Remove(owner, id)
               /\ Return(t, "update_state", id, r.res)
          ELSE IF FnPanics(loc[t].fn)
          THEN /\ Return(t, "update_state", id, "panic")
               /\ UNCHANGED <<locks, owner>>
          ELSE /\ SetLoc(t, [loc[t] EXCEPT
                     !.st = <<[ApplyFn(loc[t].fn, st) EXCEPT !.last_updated = now]>>])
               /\ Goto(t, "us_create")
               /\ last' = Internal
               /\ UNCHANGED <<locks, owner>>
    /\ UNCHANGED <<now, disk, file, committed, busVars>>

\* write_state, first half; its failure is kept for after the unlock
UpdateCreate(t, io_ok) ==
    /\ pc[t] = "us_create"
    /\ WriteCreate(t, loc[t].id, io_ok)
    /\ Goto(t, IF io_ok THEN "us_write" ELSE "us_unlock")
    /\ SetLoc(t, [loc[t] EXCEPT !.res = IF io_ok THEN "none" ELSE "FileIo"])
    /\ last' = Internal
    /\ UNCHANGED <<now, disk, locks, owner, busVars>>

\* write_state, second half
UpdateWrite(t, io_ok) ==
    /\ pc[t] = "us_write"
    /\ WriteAll(t, io_ok)
    /\ Goto(t, "us_unlock")
    /\ SetLoc(t, [loc[t] EXCEPT !.res = IF io_ok THEN "Ok" ELSE "FileIo"])
    /\ last' = Internal
    /\ UNCHANGED <<now, disk, locks, owner, busVars>>

\* unlock_state(id)?, then the result of the write
UpdateUnlock(t) ==
    /\ pc[t] = "us_unlock"
    /\ locks' = unlock_state(locks, loc[t].id)
    /\ owner' = Remove(owner, loc[t].id)
    /\ Return(t, "update_state", loc[t].id, loc[t].res)
    /\ UNCHANGED <<now, disk, file, committed, busVars>>

\* ------------------------------------------------------------------ emit
\* the handlers lock is taken (a poisoned one gives EmitError) and the list
\* of the event's name looked up
EmitBegin(t, ev, ret) ==
    /\ mutex \in {"free", "poisoned"}
    /\ LET todo == HandlersFor(handlers, EventName(ev)) IN
       IF mutex = "poisoned"
       THEN /\ em' = [em EXCEPT ![t] = [NoEm EXCEPT !.ev = ev, !.res = "EmitError", !.ret = ret]]
            /\ UNCHANGED mutex
       ELSE /\ em' = [em EXCEPT ![t] = [ev |-> ev, todo |-> todo, invoked |-> <<>>,
                        res |-> IF todo = <<>> THEN "Ok" ELSE "running", ret |-> ret]]
            /\ mutex' = t
    /\ Goto(t, "emitting")
    /\ UNCHANGED <<handlers, regs>>

\* the next handler of the list is called on the emitting thread
EmitInvoke(t) ==
    /\ pc[t] = "emitting"
    /\ em[t].res = "running"
    /\ LET h == Head(em[t].todo) IN
       \E o \in Closure(h, EventName(em[t].ev), em[t].ev, Store, now) :
          /\ locks' = o.store.locks
          /\ file' = o.store.file
          /\ owner' = o.store.owner
          /\ committed' = o.store.committed
          /\ IF o.res = "emit"
             THEN /\ em' = [em EXCEPT ![t].invoked = Append(@, [id |-> h.id, by |-> t, res |-> "emit"])]
                  /\ Goto(t, "relock")
             ELSE /\ LET n == emit_step(Tail(em[t].todo), o.res) IN
                     em' = [em EXCEPT ![t].invoked = Append(@, [id |-> h.id, by |-> t, res |-> o.res]),
                                      ![t].todo = n.todo,
                                      ![t].res = n.res]
                  /\ UNCHANGED pc
    /\ last' = Internal
    /\ UNCHANGED <<now, disk, loc, handlers, mutex, regs>>

\* a handler calls emit on the thread that holds the handlers lock: the
\* second lock() of a std Mutex by its holder either never returns or panics
NestedEmit(t, panics) ==
    /\ pc[t] = "relock"
    /\ IF panics
       THEN /\ mutex' = "poisoned"
            /\ Goto(t, "panicked")
            /\ em' = [em EXCEPT ![t].res = "panic"]
       ELSE /\ Goto(t, "deadlocked")
            /\ UNCHANGED <<mutex, em>>
    /\ last' = Internal
    /\ UNCHANGED <<storeVars, loc, handlers, regs>>

\* emit returns: the guard is dropped, the caller gets the result
EmitReturn(t) ==
    /\ pc[t] = "emitting"
    /\ em[t].res # "running"
    /\ mutex' = IF mutex = t THEN "free" ELSE mutex
    /\ Goto(t, em[t].ret)
    /\ SetLoc(t, IF em[t].ret = "idle" THEN NoLoc ELSE [loc[t] EXCEPT !.res = em[t].res])
    /\ em' = [em EXCEPT ![t] = NoEm]
    /\ last' = Step("emit", "none", em[t].res)
    /\ UNCHANGED <<storeVars, handlers, regs>>

\* the events a caller outside the agents emits
EnvEvents ==
    {Custom(DOCS_START, FALSE), Custom(DOCS_ANALYZE_CONTENT, TRUE),
     Custom(DOCS_ANALYZE_CONTENT, FALSE), Custom(DOCS_COMPLETE, FALSE),
     DocSync(DOCS_EXECUTE, "Execute", "wf1", {}), DocSync(DOCS_VERIFY, "Verify", "wf1", {})}

Emit(t, ev) ==
    /\ Idle(t)
    /\ EmitBegin(t, ev, "idle")
    /\ last' = Internal
    /\ UNCHANGED <<storeVars, loc>>

\* ------------------------------------------------- start_synchronization
\* write_state of the initial state, first half
StartSyncCreate(t, id, io_ok) ==
    /\ Idle(t)
    /\ Fresh(id)
    /\ WriteCreate(t, id, io_ok)
    /\ IF io_ok
       THEN /\ Goto(t, "ss_write")
            /\ SetLoc(t, [NoLoc EXCEPT !.op = "start_synchronization", !.id = id,
                                       !.st = <<InitialState(now)>>])
            /\ last' = Internal
       ELSE /\ last' = Step("start_synchronization", id, "StateError")
            /\ UNCHANGED <<pc, loc>>
    /\ UNCHANGED <<now, disk, locks, owner, busVars>>

StartSyncWrite(t, io_ok) ==
    /\ pc[t] = "ss_write"
    /\ WriteAll(t, io_ok)
    /\ IF io_ok
       THEN /\ Goto(t, "ss_emit")
            /\ last' = Internal
            /\ UNCHANGED loc
       ELSE Return(t, "start_synchronization", loc[t].id, "StateError")
    /\ UNCHANGED <<now, disk, locks, owner, busVars>>

\* emit(Event::DocSync(DocSyncEvent::new(DOCS_START, Start{..})))
StartSyncEmit(t) ==
    /\ pc[t] = "ss_emit"
    /\ EmitBegin(t, DocSync(DOCS_START, "Start", loc[t].id, {}), "ss_ret")
    /\ last' = Internal
    /\ UNCHANGED <<storeVars, loc>>

\* Ok(correlation_id), or the error of emit
StartSyncReturn(t) ==
    /\ pc[t] = "ss_ret"
    /\ Return(t, "start_synchronization", loc[t].id,
              IF loc[t].res = "Ok" THEN "Ok" ELSE "EventSystemError")
    /\ UNCHANGED <<storeVars, busVars>>

\* ------------------------- CoordinatorModule::handle_verification_complete
\* the module's configuration and the payloads it is called with
VcConfigs == [enabled : BOOLEAN, map : {EmptyMap, FeedbackLoopMappings}]
VcPayloads == [cid : {<<>>, <<"wf1">>}, vr : {<<>>, <<EmptyMap>>}]

\* dispatch_next_event: emit the mapped event, or return Ok when none is
Dispatch(t, id, next) ==
    IF next = NoName
    THEN /\ Return(t, "handle_verification_complete", id, "Ok")
         /\ UNCHANGED busVars
    ELSE /\ EmitBegin(t, Custom(next, TRUE), "vc_ret")
         /\ SetLoc(t, [NoLoc EXCEPT !.op = "handle_verification_complete", !.id = id])
         /\ last' = Internal

\* up to the call of write_state: the disabled loop dispatches at once; a
\* payload without correlation_id and an unreadable state are errors; without
\* verification_results nothing is done; else the decision is taken and the
\* new state is about to be written, no lock being taken
VcBegin(t, cfg, pl) ==
    /\ Idle(t)
    /\ IF ~cfg.enabled
       THEN Dispatch(t, "none", get_next_event(cfg.map, DOCS_VERIFICATION_COMPLETE))
       ELSE IF pl.cid = <<>>
       THEN /\ Return(t, "handle_verification_complete", "none", "InvalidPayload")
            /\ UNCHANGED busVars
       ELSE LET id == pl.cid[1]
                r == read_state(file, id)
                st == IF r.res = "Ok" THEN r.val[1] ELSE DefaultState(now)
                d == evaluate_requirements(pl.vr[1], st.requirements_satisfied,
                                           st.current_iteration, st.max_iterations)
            IN /\ UNCHANGED busVars
               /\ IF r.res \notin {"Ok", "NotFound"}
                  THEN Return(t, "handle_verification_complete", id, "StateError")
                  ELSE IF pl.vr = <<>>
                  THEN Return(t, "handle_verification_complete", id, "Ok")
                  ELSE /\ Len(st.iteration_history) < MaxHistory
                       /\ Goto(t, "vc_create")
                       /\ SetLoc(t, [NoLoc EXCEPT
                             !.op = "handle_verification_complete", !.id = id,
                             !.st = <<verification_complete_update(st, pl.vr[1], now)>>,
                             !.continue_iteration = d.continue_iteration,
                             !.aux = get_next_event(cfg.map,
                                        IF d.continue_iteration
                                        THEN DOCS_VERIFICATION_COMPLETE
                                        ELSE DOCS_ITERATION_DECISION)])
                       /\ last' = Internal
    /\ UNCHANGED storeVars

VcCreate(t, io_ok) ==
    /\ pc[t] = "vc_create"
    /\ WriteCreate(t, loc[t].id, io_ok)
    /\ IF io_ok
       THEN /\ Goto(t, "vc_write")
            /\ last' = Internal
            /\ UNCHANGED loc
       ELSE Return(t, "handle_verification_complete", loc[t].id, "StateError")
    /\ UNCHANGED <<now, disk, locks, owner, busVars>>

VcWrite(t, io_ok) ==
    /\ pc[t] = "vc_write"
    /\ WriteAll(t, io_ok)
    /\ IF io_ok
       THEN /\ Goto(t, "vc_dispatch")
            /\ last' = Internal
            /\ UNCHANGED loc
       ELSE Return(t, "handle_verification_complete", loc[t].id, "StateError")
    /\ UNCHANGED <<now, disk, locks, owner, busVars>>

VcDispatch(t) ==
    /\ pc[t] = "vc_dispatch"
    /\ Dispatch(t, loc[t].id, loc[t].aux)
    /\ UNCHANGED storeVars

VcReturn(t) ==
    /\ pc[t] = "vc_ret"
    /\ Return(t, "handle_verification_complete", loc[t].id,
              IF loc[t].res = "Ok" THEN "Ok" ELSE "EventError")
    /\ UNCHANGED <<storeVars, busVars>>

\* ------------------------------------------------------ register_handler
BusNames == {DOCS_START, <<"docs-", "*">>}
BusKinds == {"ok", "err"}
BusEvents == {Custom(DOCS_START, FALSE), Custom(DOCS_COMPLETE, FALSE),
              DocSync(DOCS_START, "Start", "wf1", {})}

\* the table is locked for the push; a poisoned lock is an error
Register(t, name, kind) ==
    /\ Idle(t)
    /\ mutex \in {"free", "poisoned"}
    /\ Len(regs) < MaxHandlers
    /\ IF mutex = "poisoned"
       THEN /\ last' = Step("register_handler", "none", "HandlerRegistrationError")
            /\ UNCHANGED <<handlers, regs>>
       ELSE /\ handlers' = register_handler(handlers, name, Handler(Len(regs) + 1, kind))
            /\ regs' = Append(regs, [name |-> name, kind |-> kind])
            /\ last' = Step("register_handler", "none", "Ok")
    /\ UNCHANGED <<storeVars, pc, loc, mutex, em>>

\* ---------------------------------------------------------- specifications
\* the state store used by concurrent callers
StoreNext ==
    \/ Tick
    \/ \E t \in Threads, id \in Ids : LockState(t, id)
    \/ \E t \in Threads, id \in Ids : UnlockState(t, id)
    \/ \E t \in Threads : CleanupExpiredLocks(t)
    \/ \E t \in Threads, id \in Ids : ReadState(t, id)
    \/ \E t \in Threads, id \in Ids, fn \in UpdateFns : UpdateLock(t, id, fn)
    \/ \E t \in Threads : UpdateReadApply(t)
    \/ \E t \in Threads, io_ok \in BOOLEAN : UpdateCreate(t, io_ok)
    \/ \E t \in Threads, io_ok \in BOOLEAN : UpdateWrite(t, io_ok)
    \/ \E t \in Threads : UpdateUnlock(t)

SpecStore == Init /\ [][StoreNext]_vars

\* the feedback loop of the coordinator next to the callers of update_state
FeedbackNext ==
    \/ \E t \in Threads, id \in Ids : ReadState(t, id)
    \/ \E t \in Threads, id \in Ids, fn \in UpdateFns : UpdateLock(t, id, fn)
    \/ \E t \in Threads : UpdateReadApply(t)
    \/ \E t \in Threads, io_ok \in BOOLEAN : UpdateCreate(t, io_ok)
    \/ \E t \in Threads, io_ok \in BOOLEAN : UpdateWrite(t, io_ok)
    \/ \E t \in Threads : UpdateUnlock(t)
    \/ \E t \in Threads, cfg \in VcConfigs, pl \in VcPayloads : VcBegin(t, cfg, pl)
    \/ \E t \in Threads, io_ok \in BOOLEAN : VcCreate(t, io_ok)
    \/ \E t \in Threads, io_ok \in BOOLEAN : VcWrite(t, io_ok)
    \/ \E t \in Threads : VcDispatch(t)
    \/ \E t \in Threads : VcReturn(t)
    \/ \E t \in Threads : EmitReturn(t)

SpecFeedback == Init /\ [][FeedbackNext]_vars

\* the saga: workflows are started and events emitted on the agents' bus
SagaNext ==
    \/ Tick
    \/ \E t \in Threads, id \in Ids, io_ok \in BOOLEAN : StartSyncCreate(t, id, io_ok)
    \/ \E t \in Threads, io_ok \in BOOLEAN : StartSyncWrite(t, io_ok)
    \/ \E t \in Threads : StartSyncEmit(t)
    \/ \E t \in Threads : StartSyncReturn(t)
    \/ \E t \in Threads, id \in Ids : ReadState(t, id)
    \/ \E t \in Threads, ev \in EnvEvents : Emit(t, ev)
    \/ \E t \in Threads : EmitInvoke(t)
    \/ \E t \in Threads, panics \in BOOLEAN : NestedEmit(t, panics)
    \/ \E t \in Threads : EmitReturn(t)

SpecSaga == Init /\ [][SagaNext]_vars

\* a thread that has entered start_synchronization or emit keeps running
SagaProgress(t) ==
    \/ \E io_ok \in BOOLEAN : StartSyncWrite(t, io_ok)
    \/ StartSyncEmit(t)
    \/ StartSyncReturn(t)
    \/ EmitInvoke(t)
    \/ \E panics \in BOOLEAN : NestedEmit(t, panics)
    \/ EmitReturn(t)

FairSaga == SpecSaga /\ \A t \in Threads : WF_vars(SagaProgress(t))

\* the event bus alone, with handlers registered while it is in use
BusInit ==
    /\ now = 0
    /\ disk = EmptyMap
    /\ locks = EmptyMap
    /\ file = EmptyMap
    /\ owner = EmptyMap
    /\ committed = EmptyMap
    /\ pc = [t \in Threads |-> "idle"]
    /\ loc = [t \in Threads |-> NoLoc]
    /\ last = Internal
    /\ handlers = EmptyMap
    /\ mutex = "free"
    /\ em = [t \in Threads |-> NoEm]
    /\ regs = <<>>

BusNext ==
    \/ \E t \in Threads, name \in BusNames, kind \in BusKinds : Register(t, name, kind)
    \/ \E t \in Threads, ev \in BusEvents : Emit(t, ev)
    \/ \E t \in Threads : EmitInvoke(t)
    \/ \E t \in Threads : EmitReturn(t)

SpecBus == BusInit /\ [][BusNext]_vars

\* ------------------------------------- the coordinator's phase handlers
\* the DocumentationMaps the analyzers report, each as the set of its entries
\* (source files, target files, relationships, metadata)
DocMaps == {{"a"}, {"b"}, {"a", "b"}}

\* the phase events of a workflow the coordinator has a handler for
CoordEvents ==
    {DocSync(DOCS_START, "Start", "wf1", {})}
    \cup {DocSync(DOCS_CONTENT_ANALYZED, "ContentAnalyzed", "wf1", dm) : dm \in DocMaps}
    \cup {DocSync(DOCS_DOCUSAURUS_ANALYZED, "DocusaurusAnalyzed", "wf1", dm) : dm \in DocMaps}
    \cup {DocSync(DOCS_UI_ANALYZED, "UiAnalyzed", "wf1", dm) : dm \in DocMaps}
    \cup {DocSync(DOCS_CSS_ANALYZED, "CssAnalyzed", "wf1", dm) : dm \in DocMaps}

\* the handle_*_event of the coordinator for the event's type; those of
\* UiAnalyzed and CssAnalyzed log and return Ok
CoordHandler(ev, s, t) ==
    CASE ev.key = DOCS_START -> handle_start_event(ev, s, t)
      [] ev.key = DOCS_CONTENT_ANALYZED ->
            handle_analyzed_event(ev, s, t, "ContentAnalyzed",
                "content_analyzed", DOCS_ANALYZE_DOCUSAURUS, "AnalyzeDocusaurus")
      [] ev.key = DOCS_DOCUSAURUS_ANALYZED ->
            handle_analyzed_event(ev, s, t, "DocusaurusAnalyzed",
                "docusaurus_analyzed", DOCS_ANALYZE_UI, "AnalyzeUi")
      [] OTHER -> {Out("Ok", NoEvent, s)}

TaskCount(f, id) ==
    IF read_state(f, id).res = "Ok"
    THEN Len(f[id].pending_tasks) + Len(f[id].completed_tasks) ELSE 0

\* a handler runs up to its emit (or to its return when it does not emit)
CoordHandle(t, ev) ==
    /\ Idle(t)
    /\ \E o \in CoordHandler(ev, Store, now) :
        /\ TaskCount(o.store.file, ev.cid) <= MaxTasks
        /\ locks' = o.store.locks
        /\ file' = o.store.file
        /\ owner' = o.store.owner
        /\ committed' = o.store.committed
        /\ last' = Step(ev.payload, ev.cid, o.res)
        /\ IF o.res = "emit"
           THEN /\ EmitBegin(t, o.next, "ch_ret")
                /\ SetLoc(t, [NoLoc EXCEPT !.op = ev.payload, !.id = ev.cid])
           ELSE UNCHANGED <<pc, loc, busVars>>
    /\ UNCHANGED <<now, disk>>

\* Ok(()), or the error of emit
CoordReturn(t) ==
    /\ pc[t] = "ch_ret"
    /\ Return(t, "handle_event", loc[t].id,
              IF loc[t].res = "Ok" THEN "Ok" ELSE "EventSystemError")
    /\ UNCHANGED <<storeVars, busVars>>

CoordNext ==
    \/ \E t \in Threads, id \in Ids, io_ok \in BOOLEAN : StartSyncCreate(t, id, io_ok)
    \/ \E t \in Threads, io_ok \in BOOLEAN : StartSyncWrite(t, io_ok)
    \/ \E t \in Threads : StartSyncEmit(t)
    \/ \E t \in Threads : StartSyncReturn(t)
    \/ \E t \in Threads, ev \in CoordEvents : CoordHandle(t, ev)
    \/ \E t \in Threads : CoordReturn(t)
    \/ \E t \in Threads : EmitReturn(t)

SpecCoord == Init /\ [][CoordNext]_vars

\* the coordinator's phase handlers next to callers that hold and release
\* the lock of the workflow
PhaseNext ==
    \/ \E t \in Threads, id \in Ids : LockState(t, id)
    \/ \E t \in Threads, id \in Ids : UnlockState(t, id)
    \/ \E t \in Threads, id \in Ids, io_ok \in BOOLEAN : StartSyncCreate(t, id, io_ok)
    \/ \E t \in Threads, io_ok \in BOOLEAN : StartSyncWrite(t, io_ok)
    \/ \E t \in Threads : StartSyncEmit(t)
    \/ \E t \in Threads : StartSyncReturn(t)
    \/ \E t \in Threads, ev \in CoordEvents : CoordHandle(t, ev)
    \/ \E t \in Threads : CoordReturn(t)
    \/ \E t \in Threads : EmitReturn(t)

SpecPhase == Init /\ [][PhaseNext]_vars

\* --------------------------------------------------------- DocRunnerAgent
\* target paths as token sequences: a plain name, a path through the parent
\* directory and a name with two dots in it
PlainPath == <<"a">>
AllPaths == {PlainPath, <<"..", "/", "a">>, <<"a", "..", "b">>}
Paths == {PlainPath, <<"..", "/", "a">>}

\* operation.target_path.contains("..")
HasDotDot(path) == \E i \in 1..Len(path) : path[i] = ".."

\* Option<String> contents, the variants of SyncOperation and the operation
\* types: those of each variant, and "move", which no variant supports
Contents == {<<>>, <<"hi">>}
Variants == {"Content", "Structure", "Ui", "Css"}
OperationTypes == {"create", "update", "delete", "move"}
AllOperationTypes ==
    OperationTypes \cup {"update_sidebar", "update_navigation", "update_component",
                         "add_component", "update_style", "add_style"}

\* SyncOperation
AllOperations ==
    [variant : Variants, operation_type : AllOperationTypes,
     target_path : AllPaths, content : Contents]

\* the content operations of the batches: the path with ".." comes in one
\* operation, a content with create and update, no content with create
Operations ==
    {op \in [variant : {"Content"}, operation_type : OperationTypes,
             target_path : Paths, content : Contents] :
        /\ HasDotDot(op.target_path) =>
              op.operation_type = "create" /\ op.content # <<>>
        /\ op.operation_type \in {"delete", "move"} => op.content = <<>>
        /\ op.operation_type = "update" => op.content # <<>>}
Batches == UNION {[1..n -> Operations] : n \in 0..MaxOps}

\* the events the runner's closure is called with: Execute batches, and one
\* event with another payload
RunnerEvents ==
    [payload : {"Execute"}, cid : Ids, operations : Batches, dry_run : BOOLEAN]
    \cup [payload : {"Verify"}, cid : Ids, operations : {<<>>}, dry_run : {FALSE}]

\* validate_content_operation, on the files d
validate_content_operation(op, d) ==
    IF HasDotDot(op.target_path) THEN "ValidationError"
    ELSE IF op.operation_type = "delete" /\ op.target_path \notin DOMAIN d
    THEN "ValidationError"
    ELSE IF op.operation_type = "update" /\ op.target_path \notin DOMAIN d
    THEN "ValidationError"
    ELSE IF op.operation_type = "create" /\ op.target_path \in DOMAIN d
    THEN "ValidationError"
    ELSE IF op.operation_type \in {"create", "update"} /\ op.content = <<>>
    THEN "ValidationError"
    ELSE "Ok"

validate_structure_operation(op) ==
    IF HasDotDot(op.target_path) THEN "ValidationError"
    ELSE IF op.operation_type \in {"update_sidebar", "update_navigation"}
            /\ op.content = <<>>
    THEN "ValidationError"
    ELSE "Ok"

\* variant of validate_ui_operation without the test of the path
validate_ui_operation_open(op) ==
    IF op.operation_type = "update_component" /\ op.content = <<>>
    THEN "ValidationError"
    ELSE "Ok"
validate_ui_operation(op) ==
    IF HasDotDot(op.target_path) THEN "ValidationError"
    ELSE IF op.operation_type = "update_component" /\ op.content = <<>>
    THEN "ValidationError"
    ELSE "Ok"

validate_css_operation(op) ==
    IF HasDotDot(op.target_path) THEN "ValidationError"
    ELSE IF op.operation_type = "update_style" /\ op.content = <<>>
    THEN "ValidationError"
    ELSE "Ok"

validate_operation(op, d) ==
    CASE op.variant = "Content" -> validate_content_operation(op, d)
      [] op.variant = "Structure" -> validate_structure_operation(op)
      [] op.variant = "Ui" -> validate_ui_operation(op)
      [] op.variant = "Css" -> validate_css_operation(op)

\* variant of the validation loop: only the first operation is validated
validate_batch_head(ops, d) ==
    IF ops = <<>> THEN "Ok" ELSE validate_operation(ops[1], d)
\* the validation loop: the first error is returned
validate_batch(ops, d) ==
    IF \A i \in 1..Len(ops) : validate_operation(ops[i], d) = "Ok"
    THEN "Ok" ELSE "ValidationError"

\* what a file holds when write_all failed after File::create
Torn == ""

\* what an execution gives: Ok, or an error of the file system (IoError) or
\* of the operation itself (ExecutionError), and the files it leaves
ContentRequired == "Content is required"
UnsupportedType == "Unsupported operation type"
Done(d) == [res |-> "Ok", error |-> "none", message |-> "none", disk |-> d]
Failed(error, message, d) ==
    [res |-> "Err", error |-> error, message |-> message, disk |-> d]
IoFailed(d) == Failed("IoError", "io", d)

\* File::create and write_all of a content
write_file(op, d) ==
    IF op.content = <<>>
    THEN {Failed("ExecutionError", ContentRequired, d)}
    ELSE {Done(Put(d, op.target_path, op.content[1])),
          IoFailed(d),
          IoFailed(Put(d, op.target_path, Torn))}

\* create_dir_all of the parent, then the file is written
write_file_in_dir(op, d) == {IoFailed(d)} \cup write_file(op, d)

Unsupported(d) == {Failed("ExecutionError", UnsupportedType, d)}

execute_content_operation(op, d) ==
    CASE op.operation_type = "create" -> write_file_in_dir(op, d)
      [] op.operation_type = "update" -> write_file(op, d)
      [] op.operation_type = "delete" ->
            IF op.target_path \in DOMAIN d
            THEN {Done(Remove(d, op.target_path)), IoFailed(d)}
            ELSE {IoFailed(d)}
      [] OTHER -> Unsupported(d)

execute_structure_operation(op, d) ==
    IF op.operation_type \in {"update_sidebar", "update_navigation"}
    THEN write_file_in_dir(op, d) ELSE Unsupported(d)

execute_ui_operation(op, d) ==
    IF op.operation_type \in {"update_component", "add_component"}
    THEN write_file_in_dir(op, d) ELSE Unsupported(d)

execute_css_operation(op, d) ==
    IF op.operation_type \in {"update_style", "add_style"}
    THEN write_file_in_dir(op, d) ELSE Unsupported(d)

\* execute_operation: its results and the files it leaves; the file system
\* calls succeed or fail
execute_operation(op, d) ==
    CASE op.variant = "Content" -> execute_content_operation(op, d)
      [] op.variant = "Structure" -> execute_structure_operation(op, d)
      [] op.variant = "Ui" -> execute_ui_operation(op, d)
      [] op.variant = "Css" -> execute_css_operation(op, d)

\* ExecutionLogEntry
LogEntry(op, status, error_message) ==
    [operation_type |-> op.operation_type, status |-> status,
     target_path |-> op.target_path, error_message |-> error_message]

\* variant of the loop of a dry run: the entries are pushed and not counted
dry_run_log_uncounted(run) ==
    [run EXCEPT !.log = [i \in 1..Len(run.operations) |->
                            LogEntry(run.operations[i], "skipped", <<>>)],
                !.next = Len(run.operations) + 1]
\* the loop of a dry run: every operation is logged as skipped
dry_run_log(run) ==
    [run EXCEPT !.log = [i \in 1..Len(run.operations) |->
                            LogEntry(run.operations[i], "skipped", <<>>)],
                !.results.skipped_operations = Len(run.operations),
                !.next = Len(run.operations) + 1]

\* variant of the loop body: the first failure ends the loop
run_step_abort(run, res) ==
    LET op == run.operations[run.next] IN
    IF res = "Ok"
    THEN [run EXCEPT !.log = Append(@, LogEntry(op, "success", <<>>)),
                     !.results.successful_operations = @ + 1,
                     !.next = @ + 1]
    ELSE [run EXCEPT !.log = Append(@, LogEntry(op, "failure", <<"error">>)),
                     !.results.failed_operations = @ + 1,
                     !.next = Len(run.operations) + 1]
\* the loop body after execute_operation returned res: the entry is pushed
\* and counted, and the loop goes on
run_step(run, res) ==
    LET op == run.operations[run.next] IN
    IF res = "Ok"
    THEN [run EXCEPT !.log = Append(@, LogEntry(op, "success", <<>>)),
                     !.results.successful_operations = @ + 1,
                     !.next = @ + 1]
    ELSE [run EXCEPT !.log = Append(@, LogEntry(op, "failure", <<"error">>)),
                     !.results.failed_operations = @ + 1,
                     !.next = @ + 1]

\* the closure registered for DOCS_EXECUTE logs the error of the handler
\* and returns Ok(())
execute_closure(res) == "Ok"

\* the return of handle_execute_event, what its closure returns to emit,
\* and the batch that was refused, if one was, with its dry_run flag
RunResult(id, res, refused) ==
    [op |-> "handle_execute_event", id |-> id, res |-> res,
     closure |-> execute_closure(res), refused |-> refused, dry_run |-> FALSE]
RefusedResult(ev) ==
    [RunResult(ev.cid, "ValidationError", ev.operations) EXCEPT !.dry_run = ev.dry_run]

\* handlers are called under the lock of the handler table, one at a time
BusThread == "t1"

\* up to the loops: the payload is taken, the status set to executing and
\* the batch validated; a dry run is logged at once
RunBegin(t, ev) ==
    /\ Idle(t)
    /\ LET u == update_state(Store, ev.cid, Fn("executing", {}), now)
           run == [NoRun EXCEPT !.operations = ev.operations, !.dry_run = ev.dry_run]
       IN IF ev.payload # "Execute"
          THEN /\ last' = RunResult(ev.cid, "InvalidPayload", <<>>)
               /\ UNCHANGED <<locks, file, owner, committed, pc, loc>>
          ELSE /\ locks' = u.store.locks
               /\ file' = u.store.file
               /\ owner' = u.store.owner
               /\ committed' = u.store.committed
               /\ IF u.res # "Ok"
                  THEN /\ last' = RunResult(ev.cid, "StateError", <<>>)
                       /\ UNCHANGED <<pc, loc>>
                  ELSE IF validate_batch(ev.operations, disk) # "Ok"
                  THEN /\ last' = RefusedResult(ev)
                       /\ UNCHANGED <<pc, loc>>
                  ELSE /\ Goto(t, IF ev.dry_run \/ ev.operations = <<>>
                                  THEN "rn_finish" ELSE "rn_exec")
                       /\ SetLoc(t, [NoLoc EXCEPT !.op = "handle_execute_event",
                                       !.id = ev.cid,
                                       !.run = IF ev.dry_run THEN dry_run_log(run) ELSE run])
                       /\ last' = Internal
    /\ UNCHANGED <<now, disk, busVars>>

\* one turn of the execution loop
RunExecute(t) ==
    /\ pc[t] = "rn_exec"
    /\ LET run == loc[t].run IN
       \E o \in execute_operation(run.operations[run.next], disk) :
          LET new == run_step(run, o.res) IN
          /\ disk' = o.disk
          /\ SetLoc(t, [loc[t] EXCEPT !.run = new])
          /\ Goto(t, IF new.next > Len(new.operations) THEN "rn_finish" ELSE "rn_exec")
    /\ last' = Internal
    /\ UNCHANGED <<now, locks, file, owner, committed, busVars>>

\* the status is set to execution_complete and ExecutionComplete emitted
RunFinish(t) ==
    /\ pc[t] = "rn_finish"
    /\ LET u == update_state(Store, loc[t].id, Fn("execution_complete", {}), now) IN
       /\ locks' = u.store.locks
       /\ file' = u.store.file
       /\ owner' = u.store.owner
       /\ committed' = u.store.committed
       /\ IF u.res # "Ok"
          THEN /\ Goto(t, "idle")
               /\ SetLoc(t, NoLoc)
               /\ last' = RunResult(loc[t].id, "StateError", <<>>)
               /\ UNCHANGED busVars
          ELSE /\ EmitBegin(t, DocSync(DOCS_EXECUTION_COMPLETE, "ExecutionComplete",
                                       loc[t].id, {}), "rn_ret")
               /\ last' = Internal
               /\ UNCHANGED loc
    /\ UNCHANGED <<now, disk>>

\* Ok(()), or the error of emit
RunReturn(t) ==
    /\ pc[t] = "rn_ret"
    /\ Goto(t, "idle")
    /\ SetLoc(t, NoLoc)
    /\ last' = RunResult(loc[t].id,
                   IF loc[t].res = "Ok" THEN "Ok" ELSE "EventSystemError", <<>>)
    /\ UNCHANGED <<storeVars, busVars>>

RunnerNext ==
    \/ \E ev \in RunnerEvents : RunBegin(BusThread, ev)
    \/ RunExecute(BusThread)
    \/ RunFinish(BusThread)
    \/ RunReturn(BusThread)
    \/ EmitReturn(BusThread)

SpecRunner == Init /\ [][RunnerNext]_vars

\* ----------------------- one operation validated and, if it passes, executed
\* the documentation trees an operation is met with
Trees == {EmptyMap, [p \in {PlainPath} |-> "old"]}

\* an operation that is about to be validated
OperationCall(op) ==
    [op |-> "validate_operation", id |-> "none", res |-> "none", args |-> op,
     stage |-> "called", exec |-> "none", error |-> "none", message |-> "none"]

ValidateInit ==
    /\ now = 0
    /\ disk \in Trees
    /\ locks = EmptyMap
    /\ file = EmptyMap
    /\ owner = EmptyMap
    /\ committed = EmptyMap
    /\ pc = [t \in Threads |-> "idle"]
    /\ loc = [t \in Threads |-> NoLoc]
    /\ last \in {OperationCall(op) : op \in AllOperations}
    /\ handlers = EmptyMap
    /\ mutex = "free"
    /\ em = [t \in Threads |-> NoEm]
    /\ regs = <<>>

\* the validation loop on the operation
ValidateOperation ==
    /\ last.op = "validate_operation"
    /\ last.stage = "called"
    /\ last' = [last EXCEPT !.stage = "validated",
                            !.res = validate_operation(last.args, disk)]
    /\ UNCHANGED <<storeVars, pc, loc, busVars>>

\* the execution loop on the operation, reached when the validation passed
ExecuteOperation ==
    /\ last.op = "validate_operation"
    /\ last.stage = "validated"
    /\ last.res = "Ok"
    /\ \E o \in execute_operation(last.args, disk) :
          /\ disk' = o.disk
          /\ last' = [last EXCEPT !.stage = "executed", !.exec = o.res,
                                  !.error = o.error, !.message = o.message]
    /\ UNCHANGED <<now, locks, file, owner, committed, pc, loc, busVars>>

ValidateNext == ValidateOperation \/ ExecuteOperation

SpecValidate == ValidateInit /\ [][ValidateNext]_vars

\* ------------------------------------------------- behaviour modules
\* pattern.ends_with("*")
EndsWithStar(pattern) == pattern # <<>> /\ pattern[Len(pattern)] = "*"

\* event_name.starts_with(prefix)
starts_with(name, prefix) ==
    Len(prefix) <= Len(name) /\ SubSeq(name, 1, Len(prefix)) = prefix

\* variant of the closure of matches_event_pattern: a pattern matches its
\* own name only
pattern_matches_exact(pattern, name) == name = pattern
\* the closure of matches_event_pattern, for one pattern
pattern_matches(pattern, name) ==
    IF EndsWithStar(pattern)
    THEN starts_with(name, SubSeq(pattern, 1, Len(pattern) - 1))
    ELSE name = pattern

\* BaseBehaviorModule::matches_event_pattern: event_patterns.iter().any(..)
matches_event_pattern(event_patterns, name) ==
    \E i \in 1..Len(event_patterns) : pattern_matches(event_patterns[i], name)

\* the strings of at most MaxLen characters
PatternChars == {"a", "b", "*"}
Strings == UNION {[1..n -> PatternChars] : n \in 0..MaxLen}
PatternLists == UNION {[1..n -> Strings] : n \in 0..2}

MatchCall(ps, name) ==
    [op |-> "matches_event_pattern", id |-> "none", res |-> "none",
     event_patterns |-> ps, event_name |-> name]

MatchInit ==
    /\ now = 0
    /\ disk = EmptyMap
    /\ locks = EmptyMap
    /\ file = EmptyMap
    /\ owner = EmptyMap
    /\ committed = EmptyMap
    /\ pc = [t \in Threads |-> "idle"]
    /\ loc = [t \in Threads |-> NoLoc]
    /\ last \in {MatchCall(ps, name) : ps \in PatternLists, name \in Strings}
    /\ handlers = EmptyMap
    /\ mutex = "free"
    /\ em = [t \in Threads |-> NoEm]
    /\ regs = <<>>

MatchesEventPattern ==
    /\ last.op = "matches_event_pattern"
    /\ last.res = "none"
    /\ last' = [last EXCEPT !.res =
                   IF matches_event_pattern(last.event_patterns, last.event_name)
                   THEN "true" ELSE "false"]
    /\ UNCHANGED <<storeVars, pc, loc, busVars>>

MatchNext == MatchesEventPattern

SpecMatch == MatchInit /\ [][MatchNext]_vars

\* ------------------------------------------------------ the unified agent
\* a behaviour module: the patterns of its base, and what its process_event
\* returns
Modules ==
    [event_patterns : {<<>>, <<DOCS_START>>, <<DOCS_IMPLEMENT_CHANGES>>,
                       << <<"docs-", "*">> >>},
     result : {"Ok", "Err"}]

\* BehaviorModule::can_handle_event
can_handle_event(module, ev) == matches_event_pattern(module.event_patterns, EventName(ev))

\* the agents AgentFactory::create_agent builds: subscriptions, then modules
Subscriptions == {<<>>, <<DOCS_START>>, <<DOCS_START, DOCS_IMPLEMENT_CHANGES>>}
Agents ==
    [behavior_modules : UNION {[1..n -> Modules] : n \in 0..MaxModules},
     event_subscriptions : Subscriptions]

\* impl Clone for UnifiedAgent: a new agent without modules
agent_clone(agent) == [agent EXCEPT !.behavior_modules = <<>>]

\* AgentError::from on the result of the module
map_err(result) == IF result = "Ok" THEN "Ok" ELSE "BehaviorModuleError"

\* variant of the loop of process_event: the last module that can handle
\* the event is called
RECURSIVE process_event_last(_, _, _)
process_event_last(modules, i, ev) ==
    IF i < 1
    THEN [invoked |-> <<>>, res |-> "Ok"]
    ELSE IF can_handle_event(modules[i], ev)
    THEN [invoked |-> <<i>>, res |-> map_err(modules[i].result)]
    ELSE process_event_last(modules, i - 1, ev)
\* the loop of UnifiedAgent::process_event from module i on: the modules
\* whose process_event is called, and the result
RECURSIVE process_event_from(_, _, _)
process_event_from(modules, i, ev) ==
    IF i > Len(modules)
    THEN [invoked |-> <<>>, res |-> "Ok"]
    ELSE IF can_handle_event(modules[i], ev)
    THEN [invoked |-> <<i>>, res |-> map_err(modules[i].result)]
    ELSE process_event_from(modules, i + 1, ev)

\* variant of process_event
process_event_mut(agent, ev) ==
    process_event_last(agent.behavior_modules, Len(agent.behavior_modules), ev)
process_event(agent, ev) == process_event_from(agent.behavior_modules, 1, ev)

\* the closure register_event_handlers registers: the clone of the agent
\* taken at registration
AgentHandler(id, agent) == [id |-> id, kind |-> "unified_agent", agent |-> agent]

\* register_event_handlers: one closure for each subscription
RECURSIVE register_event_handlers(_, _, _)
register_event_handlers(tbl, agent, i) ==
    IF i > Len(agent.event_subscriptions) THEN tbl
    ELSE register_event_handlers(
            register_handler(tbl, agent.event_subscriptions[i],
                             AgentHandler(i, agent_clone(agent))),
            agent, i + 1)

\* emit: the closures under the name of the event are called in order, each
\* calls process_event on its agent, logs an error and returns Ok(())
emit_to_agents(tbl, ev) ==
    LET hs == HandlersFor(tbl, EventName(ev)) IN
    [called |-> [i \in 1..Len(hs) |-> hs[i].id],
     invoked |-> [i \in 1..Len(hs) |-> process_event(hs[i].agent, ev).invoked],
     res |-> "Ok"]

AgentEvents ==
    {Custom(DOCS_START, FALSE), Custom(DOCS_IMPLEMENT_CHANGES, FALSE),
     Custom(DOCS_COMPLETE, FALSE), DocSync(DOCS_START, "Start", "wf1", {})}

\* the agent main holds, not yet initialized
AgentInit ==
    /\ now = 0
    /\ disk = EmptyMap
    /\ locks = EmptyMap
    /\ file = EmptyMap
    /\ owner = EmptyMap
    /\ committed = EmptyMap
    /\ pc = [t \in Threads |-> "idle"]
    /\ \E a \in Agents : loc = [t \in Threads |-> [NoLoc EXCEPT !.agent = a]]
    /\ last = Internal
    /\ handlers = EmptyMap
    /\ mutex = "free"
    /\ em = [t \in Threads |-> NoEm]
    /\ regs = <<>>

\* Agent::initialize
AgentInitialize(t) ==
    /\ pc[t] = "idle"
    /\ handlers' = register_event_handlers(handlers, loc[t].agent, 1)
    /\ regs' = [i \in 1..Len(loc[t].agent.event_subscriptions) |->
                  [name |-> loc[t].agent.event_subscriptions[i], kind |-> "unified_agent"]]
    /\ pc' = [pc EXCEPT ![t] = "initialized"]
    /\ last' = Step("initialize", "none", "Ok")
    /\ UNCHANGED <<storeVars, loc, mutex, em>>

\* Agent::process_event, called on the agent itself
AgentProcessEvent(t, ev) ==
    /\ LET r == process_event(loc[t].agent, ev) IN
       last' = [op |-> "process_event", id |-> "none", res |-> r.res,
                ev |-> ev, invoked |-> r.invoked]
    /\ UNCHANGED <<storeVars, pc, loc, busVars>>

\* EventSystem::emit of an event
AgentEmit(t, ev) ==
    /\ LET r == emit_to_agents(handlers, ev) IN
       last' = [op |-> "emit", id |-> "none", res |-> r.res,
                ev |-> ev, called |-> r.called, invoked |-> r.invoked]
    /\ UNCHANGED <<storeVars, pc, loc, busVars>>

AgentNext ==
    \/ AgentInitialize(BusThread)
    \/ \E ev \in AgentEvents : AgentProcessEvent(BusThread, ev)
    \/ \E ev \in AgentEvents : AgentEmit(BusThread, ev)

SpecAgent == AgentInit /\ [][AgentNext]_vars

\* ------------------------------------------------------------ the verifier
\* an operation type as the words it is made of
Words(operation_type) ==
    CASE operation_type = "update_sidebar" -> <<"update", "_", "sidebar">>
      [] operation_type = "update_navigation" -> <<"update", "_", "navigation">>
      [] operation_type = "update_component" -> <<"update", "_", "component">>
      [] operation_type = "add_component" -> <<"add", "_", "component">>
      [] operation_type = "update_style" -> <<"update", "_", "style">>
      [] operation_type = "add_style" -> <<"add", "_", "style">>
      [] OTHER -> <<operation_type>>

\* operation_type.contains(word)
contains(operation_type, word) ==
    \E i \in 1..Len(Words(operation_type)) : Words(operation_type)[i] = word

\* the filters of the five checks on the operation type of an entry
content_filter(entry) ==
    \/ starts_with(Words(entry.operation_type), <<"create">>)
    \/ starts_with(Words(entry.operation_type), <<"update">>)
structure_filter(entry) ==
    contains(entry.operation_type, "sidebar") \/ contains(entry.operation_type, "navigation")
ui_filter(entry) == contains(entry.operation_type, "component")
css_filter(entry) == contains(entry.operation_type, "style")
technical_filter(entry) == TRUE

\* the filter of check c
type_filter(c, entry) ==
    CASE c = "content" -> content_filter(entry)
      [] c = "structure" -> structure_filter(entry)
      [] c = "ui" -> ui_filter(entry)
      [] c = "css" -> css_filter(entry)
      [] c = "technical" -> technical_filter(entry)

\* .filter(type).filter(|entry| entry.status == "success").count()
count_success(execution_log, c) ==
    Cardinality({i \in 1..Len(execution_log) :
                    type_filter(c, execution_log[i]) /\ execution_log[i].status = "success"})

\* quality scores, in hundredths
Full == 100
Partial == 80

\* the score set at the end of verify_content
content_quality_score(successful, failed) ==
    IF successful > 0 /\ failed = 0 THEN Full
    ELSE IF successful > 0 THEN (Full * successful) \div (successful + failed)
    ELSE 0

\* the score set at the end of the four other checks
quality_score(successful, failed, skipped) ==
    IF successful > 0 /\ failed = 0 THEN Full
    ELSE IF successful > 0 THEN (Full * successful) \div (successful + failed)
    ELSE IF skipped > 0 /\ failed = 0 THEN Partial
    ELSE 0

\* what a check returns: its counts, its score and the status it logs
Metrics(status, score) ==
    [successful |-> IF status = "success" THEN 1 ELSE 0,
     failed |-> IF status = "failure" THEN 1 ELSE 0,
     skipped |-> IF status = "skipped" THEN 1 ELSE 0,
     quality_score |-> score, status |-> status]

verify_content(execution_log) ==
    IF count_success(execution_log, "content") > 0
    THEN Metrics("success", content_quality_score(1, 0))
    ELSE Metrics("failure", content_quality_score(0, 1))

\* verify_structure, verify_ui and verify_css, which differ in the filter
verify_filtered(execution_log, c) ==
    IF count_success(execution_log, c) > 0
    THEN Metrics("success", quality_score(1, 0, 0))
    ELSE Metrics("skipped", quality_score(0, 0, 1))
verify_structure(execution_log) == verify_filtered(execution_log, "structure")
verify_ui(execution_log) == verify_filtered(execution_log, "ui")
verify_css(execution_log) == verify_filtered(execution_log, "css")

\* success_rate >= 0.9
verify_technical(execution_log) ==
    IF Len(execution_log) > 0
    THEN IF 10 * count_success(execution_log, "technical") >= 9 * Len(execution_log)
         THEN Metrics("success", quality_score(1, 0, 0))
         ELSE Metrics("failure", quality_score(0, 1, 0))
    ELSE Metrics("skipped", quality_score(0, 0, 1))

\* the weights of the overall score, in hundredths
ContentWeight == 40
StructureWeight == 20
UiWeight == 15
CssWeight == 10
TechnicalWeight == 15

\* variant of the overall score: the content weighs a half
overall_quality_half(q) ==
    q.content * 50 + q.structure * StructureWeight + q.ui * UiWeight
    + q.css * CssWeight + q.technical * TechnicalWeight
\* the overall score of the five scores q, in ten-thousandths
overall_quality(q) ==
    q.content * ContentWeight + q.structure * StructureWeight + q.ui * UiWeight
    + q.css * CssWeight + q.technical * TechnicalWeight

\* the VerificationResult each category is built with; none is assigned again
PendingResult == [status |-> "pending", issues_found |-> 0, critical_issues |-> 0]
Categories == {"content", "structure", "ui", "css"}

\* the check_status map of the payload
check_status(verification_results) ==
    [c \in Categories |-> verification_results[c].status = "success"]

\* the checks of handle_verify_event on a log, and the payload built of them
verify(execution_log) ==
    LET checks == [content |-> verify_content(execution_log),
                   structure |-> verify_structure(execution_log),
                   ui |-> verify_ui(execution_log),
                   css |-> verify_css(execution_log),
                   technical |-> verify_technical(execution_log)]
        verification_results == [c \in Categories |-> PendingResult]
    IN [checks |-> checks,
        overall_quality |-> overall_quality([c \in DOMAIN checks |-> checks[c].quality_score]),
        check_status |-> check_status(verification_results)]

\* the execution logs of a Verify payload
LoggedTypes == {"create", "delete", "update_sidebar", "add_component", "add_style"}
ExecutionLogs ==
    UNION {[1..n -> [operation_type : LoggedTypes,
                     status : {"success", "failure", "skipped"}]] : n \in 0..MaxLog}

VerifyCall(execution_log) ==
    [op |-> "verify", id |-> "none", res |-> "none",
     execution_log |-> execution_log, returned |-> FALSE]

VerifyInit ==
    /\ now = 0
    /\ disk = EmptyMap
    /\ locks = EmptyMap
    /\ file = EmptyMap
    /\ owner = EmptyMap
    /\ committed = EmptyMap
    /\ pc = [t \in Threads |-> "idle"]
    /\ loc = [t \in Threads |-> NoLoc]
    /\ last \in {VerifyCall(l) : l \in ExecutionLogs}
    /\ handlers = EmptyMap
    /\ mutex = "free"
    /\ em = [t \in Threads |-> NoEm]
    /\ regs = <<>>

Verify ==
    /\ last.op = "verify"
    /\ ~last.returned
    /\ last' = [last EXCEPT !.res = verify(last.execution_log), !.returned = TRUE]
    /\ UNCHANGED <<storeVars, pc, loc, busVars>>

VerifyNext == Verify

SpecVerify == VerifyInit /\ [][VerifyNext]_vars

\* ------------------------------------------- write_state then read_state
\* an f64: two finite numbers and a value that is no number
Floats == {"0.5", "0.25", "NaN"}

\* QualityMetrics; the four other scores are as content_quality
QualityMetrics == [content_quality : Floats, overall_quality : Floats]

\* Option<QualityMetrics>
OptionMetrics == {<<>>} \cup {<<m>> : m \in QualityMetrics}

\* the states handed to write_state
WrittenStates ==
    {[DefaultState(0) EXCEPT !.quality_scores = q, !.metadata = md,
                             !.current_iteration = ci, !.requirements_satisfied = rs] :
        q \in OptionMetrics,
        md \in {EmptyMap, [status |-> "verifying"]},
        ci \in 1..2,
        rs \in {EmptyMap, [complete |-> TRUE]}}

\* serde_json writes a finite f64 with the digits that identify it and a
\* value that is no number as null
float_to_json(x) == IF x = "NaN" THEN "null" ELSE x

\* serde_json reads the digits of a number back; null is no f64
float_from_json(j) == IF j = "null" THEN {} ELSE {j}

\* serde_json::to_string_pretty of a DocSyncState: the document, where
\* quality_scores is null (no member) or an object of numbers
to_string_pretty(st) ==
    [json |-> [st EXCEPT !.quality_scores =
                  IF st.quality_scores = <<>> THEN <<>>
                  ELSE <<[f \in DOMAIN st.quality_scores[1] |->
                             float_to_json(st.quality_scores[1][f])]>>]]

\* serde_json::from_str of a document: the states it may give, none if the
\* document is no DocSyncState
from_str(doc) ==
    IF doc.json.quality_scores = <<>>
    THEN {[doc.json EXCEPT !.quality_scores = <<>>]}
    ELSE LET q == doc.json.quality_scores[1] IN
         {[doc.json EXCEPT !.quality_scores = <<m>>] :
             m \in {m \in QualityMetrics :
                      \A f \in DOMAIN q : m[f] \in float_from_json(q[f])}}

\* write_state: the document is written, or File::create fails, or
\* write_all fails after File::create
write_state(f, id, st) ==
    {[res |-> "Ok", file |-> Put(f, id, to_string_pretty(st))],
     [res |-> "FileIo", file |-> f],
     [res |-> "FileIo", file |-> Put(f, id, Truncated)]}

\* read_state of a document
read_document(f, id) ==
    IF id \notin DOMAIN f THEN {[res |-> "NotFound", val |-> <<>>]}
    ELSE IF f[id] = Truncated
    THEN {[res |-> "JsonSerialization", val |-> <<>>]}
    ELSE IF from_str(f[id]) = {}
    THEN {[res |-> "JsonSerialization", val |-> <<>>]}
    ELSE {[res |-> "Ok", val |-> <<st>>] : st \in from_str(f[id])}

RoundTripCall(st) ==
    [op |-> "round_trip", id |-> "wf1", res |-> "none", state |-> st,
     written |-> "none", val |-> <<>>]

RoundTripInit ==
    /\ now = 0
    /\ disk = EmptyMap
    /\ locks = EmptyMap
    /\ file = EmptyMap
    /\ owner = EmptyMap
    /\ committed = EmptyMap
    /\ pc = [t \in Threads |-> "idle"]
    /\ loc = [t \in Threads |-> NoLoc]
    /\ last \in {RoundTripCall(st) : st \in WrittenStates}
    /\ handlers = EmptyMap
    /\ mutex = "free"
    /\ em = [t \in Threads |-> NoEm]
    /\ regs = <<>>

\* write_state(id, s)
RoundTripWrite ==
    /\ last.op = "round_trip"
    /\ last.written = "none"
    /\ \E o \in write_state(file, last.id, last.state) :
          /\ file' = o.file
          /\ last' = [last EXCEPT !.written = o.res]
    /\ UNCHANGED <<now, disk, locks, owner, committed, pc, loc, busVars>>

\* read_state(id), after the write
RoundTripRead ==
    /\ last.op = "round_trip"
    /\ last.written # "none"
    /\ last.res = "none"
    /\ \E o \in read_document(file, last.id) :
          last' = [last EXCEPT !.res = o.res, !.val = o.val]
    /\ UNCHANGED <<storeVars, pc, loc, busVars>>

RoundTripNext == RoundTripWrite \/ RoundTripRead

SpecRoundTrip == RoundTripInit /\ [][RoundTripNext]_vars

\* ------------------------------------ cleanup_expired_locks, then lock_state
\* the ids of the lock entries
LockIds == {"wf1", "wf2", "wf3"}

\* the call of cleanup_expired_locks, with the entries it finds
CleanupCall(lk) ==
    [op |-> "cleanup_expired_locks", id |-> "none", res |-> "none",
     before |-> lk, stage |-> "called"]

\* lock entries taken at some times up to now
CleanupInit ==
    /\ now \in 0..MaxTime
    /\ disk = EmptyMap
    /\ locks \in UNION {[d -> 0..now] : d \in SUBSET LockIds}
    /\ file = EmptyMap
    /\ owner = EmptyMap
    /\ committed = EmptyMap
    /\ pc = [t \in Threads |-> "idle"]
    /\ loc = [t \in Threads |-> NoLoc]
    /\ last = CleanupCall(locks)
    /\ handlers = EmptyMap
    /\ mutex = "free"
    /\ em = [t \in Threads |-> NoEm]
    /\ regs = <<>>

\* cleanup_expired_locks()
Cleanup ==
    /\ last.op = "cleanup_expired_locks"
    /\ last.stage = "called"
    /\ LET r == cleanup_expired_locks(locks, now) IN
        /\ locks' = r.locks
        /\ last' = [last EXCEPT !.res = r.res, !.stage = "returned"]
    /\ UNCHANGED <<now, disk, file, owner, committed, pc, loc, busVars>>

\* lock_state(id), right after the cleanup
LockAfterCleanup(id) ==
    /\ last.op = "cleanup_expired_locks"
    /\ last.stage = "returned"
    /\ LET r == lock_state(locks, id, now) IN
        /\ locks' = r.locks
        /\ last' = [op |-> "lock_state", id |-> id, res |-> r.res,
                    before |-> last.before, stage |-> "returned"]
    /\ UNCHANGED <<now, disk, file, owner, committed, pc, loc, busVars>>

CleanupNext == Cleanup \/ \E id \in LockIds : LockAfterCleanup(id)

SpecCleanup == CleanupInit /\ [][CleanupNext]_vars

\* ------------------------------------------------ forge_domain::Context
\* ContextMessage: a content message of a role, a tool result or an image
ContentMessage(role, content) ==
    [variant |-> "ContentMessage", role |-> role, content |-> content]
ToolMessage == [variant |-> "ToolMessage", role |-> "none", content |-> "result"]
Image == [variant |-> "Image", role |-> "none", content |-> "url"]

\* ContextMessage::system
system(content) == ContentMessage("System", content)

MessageContents == {"old", "new"}
ContextMessages ==
    {ContentMessage(r, c) : r \in {"System", "User", "Assistant"}, c \in MessageContents}
    \cup {ToolMessage, Image}

\* Context.messages
Contexts == UNION {[1..n -> ContextMessages] : n \in 0..MaxMessages}

\* Context::set_first_system_message: the messages it returns
set_first_system_message(messages, content) ==
    IF messages = <<>>
    THEN Append(messages, system(content))
    ELSE IF messages[1].variant = "ContentMessage"
    THEN IF messages[1].role = "System"
         THEN [messages EXCEPT ![1].content = content]
         ELSE <<system(content)>> \o messages
    ELSE messages

ContextCall(messages, content) ==
    [op |-> "set_first_system_message", id |-> "none", res |-> "none",
     messages |-> messages, content |-> content, returned |-> FALSE]

ContextInit ==
    /\ now = 0
    /\ disk = EmptyMap
    /\ locks = EmptyMap
    /\ file = EmptyMap
    /\ owner = EmptyMap
    /\ committed = EmptyMap
    /\ pc = [t \in Threads |-> "idle"]
    /\ loc = [t \in Threads |-> NoLoc]
    /\ last \in {ContextCall(m, c) : m \in Contexts, c \in MessageContents}
    /\ handlers = EmptyMap
    /\ mutex = "free"
    /\ em = [t \in Threads |-> NoEm]
    /\ regs = <<>>

SetFirstSystemMessage ==
    /\ last.op = "set_first_system_message"
    /\ ~last.returned
    /\ last' = [last EXCEPT !.res = set_first_system_message(last.messages, last.content),
                            !.returned = TRUE]
    /\ UNCHANGED <<storeVars, pc, loc, busVars>>

ContextNext == SetFirstSystemMessage

SpecContext == ContextInit /\ [][ContextNext]_vars

\* the maps from some of the keys to the values
Maps(keys, vals) == UNION {[d -> vals] : d \in SUBSET keys}

\* ------------------- the feedback loop on workflows that have requirements
\* the workflow states a caller has written with write_state before the
\* first VerificationComplete: requirements and iteration counters are given
IterSeeds ==
    {[DefaultState(0) EXCEPT !.current_iteration = c, !.max_iterations = m,
                             !.requirements_satisfied = rq] :
        c \in 1..MaxIter, m \in 1..MaxIter, rq \in Maps({"complete"}, {TRUE})}

\* the payloads: a DocSync event serialised whole has its correlation_id at
\* the top and its verification_results below "payload" (none at the top);
\* a custom payload has them at the top
IterPayloads ==
    [cid : {<<"wf1">>},
     vr : {<<>>, <<[k \in {"complete"} |-> JBool(TRUE)]>>,
           <<[k \in {"complete"} |-> JBool(FALSE)]>>}]

IterInit ==
    /\ now = 0
    /\ disk = EmptyMap
    /\ locks = EmptyMap
    /\ \E st \in IterSeeds :
          /\ st.current_iteration <= st.max_iterations
          /\ file = [id \in Ids |-> st]
          /\ committed = [id \in Ids |-> st]
    /\ owner = EmptyMap
    /\ pc = [t \in Threads |-> "idle"]
    /\ loc = [t \in Threads |-> NoLoc]
    /\ last = Internal
    /\ handlers = RegisterAll(EmptyMap, AgentRegistrations, 1)
    /\ mutex = "free"
    /\ em = [t \in Threads |-> NoEm]
    /\ regs = [i \in 1..Len(AgentRegistrations) |-> AgentRegistrations[i]]

IterNext ==
    \/ \E t \in Threads, cfg \in VcConfigs, pl \in IterPayloads : VcBegin(t, cfg, pl)
    \/ \E t \in Threads, io_ok \in BOOLEAN : VcCreate(t, io_ok)
    \/ \E t \in Threads, io_ok \in BOOLEAN : VcWrite(t, io_ok)
    \/ \E t \in Threads : VcDispatch(t)
    \/ \E t \in Threads : VcReturn(t)
    \/ \E t \in Threads : EmitReturn(t)

SpecIter == IterInit /\ [][IterNext]_vars

\* --------------------- the feedback loop, one VerificationComplete at a time
\* the outcomes of write_state: written, File::create failed, write_all failed
WriteOutcomes == {"ok", "create_failed", "write_failed"}

\* the record of the loop: the iteration and the required values the
\* workflow started with, the continue branches taken so far, and the branch
\* and the report of the last handling
LoopCall(st) ==
    [op |-> "feedback_loop", id |-> "wf1", res |-> "none",
     initial |-> st.current_iteration, required |-> st.requirements_satisfied,
     budget |-> st.max_iterations - st.current_iteration, continues |-> 0, exhausted |-> FALSE, branch |-> "none",
     vr |-> <<>>, reported |-> <<>>, dispatched |-> NoName, rounds |-> 0,
     unmet |-> DOMAIN st.requirements_satisfied]

LoopInit ==
    /\ now = 0
    /\ disk = EmptyMap
    /\ locks = EmptyMap
    /\ \E st \in IterSeeds :
          /\ st.current_iteration <= st.max_iterations
          /\ file = [id \in Ids |-> st]
          /\ committed = [id \in Ids |-> st]
          /\ last = LoopCall(st)
    /\ owner = EmptyMap
    /\ pc = [t \in Threads |-> "idle"]
    /\ loc = [t \in Threads |-> NoLoc]
    /\ handlers = EmptyMap
    /\ mutex = "free"
    /\ em = [t \in Threads |-> NoEm]
    /\ regs = <<>>

\* the requirements whose field has been the boolean false in every payload
StillUnmet(unmet, pl) ==
    IF pl.vr = <<>> THEN {}
    ELSE {k \in unmet \cap DOMAIN pl.vr[1] : pl.vr[1][k] = JBool(FALSE)}

\* the handling has returned without reaching the decision
LoopReturn(res, pl) ==
    /\ last' = [last EXCEPT !.res = res, !.branch = "none", !.vr = <<>>,
                            !.rounds = @ + 1, !.unmet = StillUnmet(@, pl),
                            !.reported = <<>>, !.dispatched = NoName,
                            !.exhausted = (last.continues >= last.budget)]
    /\ UNCHANGED <<file, committed>>

\* handle_verification_complete from its first line to its return, no other
\* caller running: no handler is registered, so the emit of
\* dispatch_next_event returns Ok having called nothing
HandleVerificationComplete(cfg, pl, w) ==
    /\ last.op = "feedback_loop"
    /\ last.rounds < MaxRounds
    /\ IF ~cfg.enabled
       THEN /\ last' = [last EXCEPT !.res = "Ok", !.branch = "none", !.vr = <<>>,
                           !.reported = <<>>, !.rounds = @ + 1,
                           !.unmet = StillUnmet(@, pl),
                           !.dispatched = get_next_event(cfg.map,
                                              DOCS_VERIFICATION_COMPLETE)]
            /\ UNCHANGED <<file, committed>>
       ELSE IF pl.cid = <<>>
       THEN LoopReturn("InvalidPayload", pl)
       ELSE IF read_state(file, pl.cid[1]).res \notin {"Ok", "NotFound"}
       THEN LoopReturn("StateError", pl)
       ELSE IF pl.vr = <<>>
       THEN LoopReturn("Ok", pl)
       ELSE LET id == pl.cid[1]
                st == read_state(file, id).val[1]
                d == evaluate_requirements(pl.vr[1], st.requirements_satisfied,
                                           st.current_iteration, st.max_iterations)
                u == verification_complete_update(st, pl.vr[1], now)
            IN IF w = "ok"
               THEN /\ file' = Put(file, id, u)
                    /\ committed' = Put(committed, id, u)
                    /\ last' = [last EXCEPT
                          !.res = "Ok", !.rounds = @ + 1,
                          !.unmet = StillUnmet(@, pl),
                          !.branch = IF d.continue_iteration THEN "continue"
                                     ELSE "complete",
                          !.continues = IF d.continue_iteration THEN @ + 1 ELSE @,
                          !.exhausted = (last.continues >= last.budget),
                          !.vr = pl.vr,
                          !.reported = <<d.satisfied>>,
                          !.dispatched = get_next_event(cfg.map,
                                IF d.continue_iteration
                                THEN DOCS_VERIFICATION_COMPLETE
                                ELSE DOCS_ITERATION_DECISION)]
               ELSE /\ file' = IF w = "write_failed" THEN Put(file, id, Truncated)
                               ELSE file
                    /\ UNCHANGED committed
                    /\ last' = [last EXCEPT !.res = "StateError", !.branch = "none",
                                   !.rounds = @ + 1, !.vr = <<>>,
                                   !.unmet = StillUnmet(@, pl), !.reported = <<>>,
                                   !.dispatched = NoName,
                                   !.exhausted = (last.continues >= last.budget)]
    /\ UNCHANGED <<now, disk, locks, owner, pc, loc, busVars>>

LoopNext ==
    \E cfg \in VcConfigs, pl \in VcPayloads \cup IterPayloads, w \in WriteOutcomes :
        HandleVerificationComplete(cfg, pl, w)

SpecLoop == LoopInit /\ [][LoopNext]_vars

\* ----------------------------- IterationDecisionModule, called on its own
\* the requirement names and the JSON values of a payload field; payloads
\* and requirement maps are maps over the names
ReqKeys == {"complete", "quality"}
JsonValues == {JBool(TRUE), JBool(FALSE), JNum(Threshold), JNum(Threshold + 1), JStr}

DecisionArgs ==
    [vr : Maps(ReqKeys, JsonValues), requirements : Maps(ReqKeys, BOOLEAN),
     current_iteration : 1..(MaxIter + 1), max_iterations : 1..MaxIter]

\* a call of evaluate_requirements that has not returned yet
DecisionCall(a) ==
    [op |-> "evaluate_requirements", id |-> "none", res |-> "none", args |-> a,
     returned |-> FALSE]

DecisionInit ==
    /\ now = 0
    /\ disk = EmptyMap
    /\ locks = EmptyMap
    /\ file = EmptyMap
    /\ owner = EmptyMap
    /\ committed = EmptyMap
    /\ pc = [t \in Threads |-> "idle"]
    /\ loc = [t \in Threads |-> NoLoc]
    /\ last \in {DecisionCall(a) : a \in DecisionArgs}
    /\ handlers = EmptyMap
    /\ mutex = "free"
    /\ em = [t \in Threads |-> NoEm]
    /\ regs = <<>>

EvaluateRequirements ==
    /\ last.op = "evaluate_requirements"
    /\ ~last.returned
    /\ last' = [last EXCEPT !.returned = TRUE, !.res =
                  evaluate_requirements(last.args.vr, last.args.requirements,
                      last.args.current_iteration, last.args.max_iterations)]
    /\ UNCHANGED <<storeVars, pc, loc, busVars>>

DecisionNext == EvaluateRequirements

SpecDecision == DecisionInit /\ [][DecisionNext]_vars

\* ============================================================= properties
Holds(t, id) == id \in DOMAIN locks /\ id \in DOMAIN owner /\ owner[id].by = t

\* C1: for one correlation_id at most one update_state call is between its
\* successful lock_state and its unlock_state, whatever time has elapsed
C1_OneWriter ==
    \A id \in Ids : Cardinality({t \in Threads : InUpdate(t) /\ loc[t].id = id}) <= 1

\* C2: a lock_state(id) fails with LockError when the last acquisition of id
\* has not been unlocked and is younger than the timeout, and succeeds when
\* there is none or the timeout has elapsed since it
C2_LockWindow ==
    [][\A id \in Ids :
        (last'.op = "lock_state" /\ last'.id = id) =>
            last'.res = (IF id \in DOMAIN owner /\ now - owner[id].at < LockTimeout
                         THEN "LockError" ELSE "Ok")]_vars

\* a second lock_state has failed inside the window of the first
C2_Witness ==
    /\ last = Step("lock_state", "wf1", "LockError")
    /\ "wf1" \in DOMAIN owner
    /\ now - owner["wf1"].at < LockTimeout

\* C3: when an update_state that took the lock returns or unwinds, a
\* lock_state of the same id succeeds at once
C3_LockReleased ==
    [][\A t \in Threads :
        (InUpdate(t) /\ pc'[t] = "idle") =>
            lock_state(locks', loc[t].id, now').res = "Ok"]_vars

\* C4: once a state of a workflow has been written, a write to its state
\* file is a step of update_state taken by the thread that holds its lock
C4_LockedWrites ==
    [][\A t \in Threads, id \in Ids :
        (/\ id \in DOMAIN committed
         /\ file'[id] # file[id]
         /\ pc'[t] # pc[t])
        => (pc[t] \in {"us_create", "us_write"} /\ Holds(t, id))]_vars

\* C5: a read_state(id) while a write of id is under way returns Ok with the
\* document committed before the write or the one being written
Writing(t, id) == pc[t] \in {"us_create", "us_write"} /\ loc[t].id = id

C5_ReadsCommitted ==
    [][\A id \in Ids :
        (/\ last'.op = "read_state"
         /\ last'.id = id
         /\ id \in DOMAIN committed
         /\ \E t \in Threads : Writing(t, id))
        => /\ last'.res = "Ok"
           /\ \/ file[id] = committed[id]
              \/ \E t \in Threads : Writing(t, id) /\ file[id] = loc[t].st[1]]_vars

\* the serial numbers of the register_handler calls made for a name, in order
RegisteredIds(name) ==
    SelectSeq([i \in 1..Len(regs) |-> i], LAMBDA i : regs[i].name = name)
InvokedIds(t) == [i \in 1..Len(em[t].invoked) |-> em[t].invoked[i].id]
IsPrefix(p, q) == Len(p) <= Len(q) /\ p = SubSeq(q, 1, Len(p))
Emitting(t) == pc[t] = "emitting"
OnCaller(t) == \A i \in 1..Len(em[t].invoked) : em[t].invoked[i].by = t

\* C6: when emit is about to return, it has invoked the handlers registered
\* under the event's name in registration order, each exactly once, on the
\* calling thread
C6_AllInvoked ==
    \A t \in Threads :
        (Emitting(t) /\ em[t].res # "running") =>
            /\ InvokedIds(t) = RegisteredIds(EventName(em[t].ev))
            /\ OnCaller(t)

\* C6, amended: the handlers emit has invoked are, in registration order and
\* on the calling thread, the first of those registered under the event's
\* name, each once; they are all of them when emit returns Ok
C6_PrefixInvoked ==
    \A t \in Threads :
        Emitting(t) =>
            /\ IsPrefix(InvokedIds(t), RegisteredIds(EventName(em[t].ev)))
            /\ OnCaller(t)
            /\ em[t].res = "Ok" => InvokedIds(t) = RegisteredIds(EventName(em[t].ev))

\* an emit returns Ok after two handlers of the name, in registration order
C6_Witness ==
    \E t \in Threads :
        /\ Emitting(t)
        /\ em[t].res = "Ok"
        /\ Len(em[t].invoked) >= 2
        /\ InvokedIds(t) = RegisteredIds(EventName(em[t].ev))

\* C7: a handler that returned an error is the last one emit has invoked for
\* the event, and emit returns an error
C7_AbortOnError ==
    \A t \in Threads :
        Emitting(t) =>
            \A i \in 1..Len(em[t].invoked) :
                em[t].invoked[i].res = "Err" =>
                    /\ i = Len(em[t].invoked)
                    /\ em[t].res = "HandlerError"

\* a handler has failed with handlers registered after it left uncalled
C7_Witness ==
    \E t \in Threads :
        /\ Emitting(t)
        /\ em[t].res = "HandlerError"
        /\ em[t].todo # <<>>
        /\ Len(InvokedIds(t)) < Len(RegisteredIds(EventName(em[t].ev)))

Status(id) ==
    IF read_state(file, id).res = "Ok" /\ "status" \in DOMAIN file[id].metadata
    THEN file[id].metadata["status"] ELSE "none"

PhaseRank(status) ==
    CASE status = "initializing" -> 0
      [] status = "analyzing_content" -> 1
      [] status = "analyzing_docusaurus" -> 2
      [] status = "analyzing_ui" -> 3
      [] status = "analyzing_css" -> 4
      [] status = "executing" -> 5
      [] status = "verifying" -> 6
      [] status = "complete" -> 7
      [] OTHER -> 0 - 1

\* C9: when start_synchronization returns Ok, the persisted status of the
\* returned id is analyzing_content or a later phase
C9_StartHandled ==
    \A id \in Ids :
        last = Step("start_synchronization", id, "Ok") => PhaseRank(Status(id)) >= 1

\* C10: the status of a started workflow moves from a phase to the next one
\* only, and a workflow whose start_synchronization returned Ok eventually
\* reaches complete
C10_PhasesToComplete ==
    /\ [][\A id \in Ids :
            (PhaseRank(Status(id)) >= 0 /\ Status(id)' # Status(id)) =>
                PhaseRank(Status(id)') = PhaseRank(Status(id)) + 1]_vars
    /\ \A id \in Ids :
            [](last = Step("start_synchronization", id, "Ok") =>
                   <>(Status(id) = "complete"))

\* the tasks of a workflow, and the phase a *Analyzed event finishes
TaskIds(tasks) == {tasks[i].task_id : i \in 1..Len(tasks)}
Readable(f, id) == read_state(f, id).res = "Ok"
AnalyzedPayloads == {"ContentAnalyzed", "DocusaurusAnalyzed", "UiAnalyzed", "CssAnalyzed"}

FinishedType(payload) ==
    CASE payload = "ContentAnalyzed" -> "content_analysis"
      [] payload = "DocusaurusAnalyzed" -> "docusaurus_analysis"
      [] payload = "UiAnalyzed" -> "ui_analysis"
      [] OTHER -> "css_analysis"

NextType(payload) ==
    CASE payload = "ContentAnalyzed" -> "docusaurus_analysis"
      [] payload = "DocusaurusAnalyzed" -> "ui_analysis"
      [] payload = "UiAnalyzed" -> "css_analysis"
      [] OTHER -> "execution"

OneListEach(st) ==
    /\ TaskIds(st.pending_tasks) \cap TaskIds(st.completed_tasks) = {}
    /\ Cardinality(TaskIds(st.pending_tasks)) = Len(st.pending_tasks)
    /\ Cardinality(TaskIds(st.completed_tasks)) = Len(st.completed_tasks)

\* the handling of payload has moved the pending tasks of the finished phase
\* to completed_tasks, with status completed, and pushed one new pending task
\* of the next phase
TaskMoved(pre, post, payload) ==
    LET fin == SelectSeq(pre.pending_tasks, LAMBDA k : k.task_type = FinishedType(payload))
        oth == SelectSeq(pre.pending_tasks, LAMBDA k : k.task_type # FinishedType(payload))
    IN /\ post.completed_tasks = pre.completed_tasks \o
              [i \in 1..Len(fin) |-> [fin[i] EXCEPT !.status = "completed"]]
       /\ Len(post.pending_tasks) = Len(oth) + 1
       /\ SubSeq(post.pending_tasks, 1, Len(oth)) = oth
       /\ LET new == post.pending_tasks[Len(post.pending_tasks)]
          IN /\ new.status = "pending"
             /\ new.task_type = NextType(payload)
             /\ new.task_id \notin TaskIds(pre.pending_tasks) \cup TaskIds(pre.completed_tasks)

PhasePending(st, payload) ==
    \E i \in 1..Len(st.pending_tasks) : st.pending_tasks[i].task_type = FinishedType(payload)

\* C11: every task of a workflow is in exactly one of pending_tasks and
\* completed_tasks, and the handling of a *Analyzed event whose phase has a
\* pending task moves that task to completed and pushes one task of the next
\* phase
C11_TaskLists ==
    /\ [](\A id \in Ids : Readable(file, id) => OneListEach(file[id]))
    /\ [][\A id \in Ids :
            (/\ last'.op \in AnalyzedPayloads
             /\ last'.id = id
             /\ Readable(file, id)
             /\ PhasePending(file[id], last'.op))
            => (Readable(file', id) /\ TaskMoved(file[id], file'[id], last'.op))]_vars

\* C12: the handling of a *Analyzed event keeps every entry master_doc_map
\* held before it
C12_MapMerged ==
    [][\A id \in Ids :
        (/\ last'.op \in AnalyzedPayloads
         /\ last'.id = id
         /\ Readable(file, id)
         /\ Readable(file', id))
        => file[id].master_doc_map \subseteq file'[id].master_doc_map]_vars

Evaluated == last.op = "evaluate_requirements" /\ last.returned

\* C13: evaluate_requirements returns continue_iteration = false whenever
\* current_iteration >= max_iterations
C13_StopsAtMax ==
    (Evaluated /\ last.args.current_iteration >= last.args.max_iterations)
        => ~last.res.continue_iteration

\* the call of the example: iteration 1 of 1 with one unmet requirement
C13_Witness ==
    /\ Evaluated
    /\ last.args.current_iteration = 1
    /\ last.args.max_iterations = 1
    /\ last.args.requirements = [k \in {"complete"} |-> TRUE]
    /\ last.args.vr = [k \in {"complete"} |-> JBool(FALSE)]
    /\ ~last.res.continue_iteration

\* what the documentation says of one requirement: the payload has a field
\* of that name, and it is a boolean equal to the required value or a number
\* strictly greater than 0.7
Met(vr, k, required_value) ==
    /\ k \in DOMAIN vr
    /\ \/ vr[k].kind = "bool" /\ vr[k].b = required_value
       \/ vr[k].kind = "num" /\ vr[k].n > Threshold

\* C15: evaluate_requirements marks a requirement satisfied exactly when the
\* payload field of that name is a boolean equal to the required value or a
\* number above 0.7 (a missing field or any other type is unsatisfied), and
\* the decision uses the conjunction of the marks
C15_SatisfiedExactly ==
    Evaluated =>
        /\ DOMAIN last.res.satisfied = DOMAIN last.args.requirements
        /\ \A k \in DOMAIN last.args.requirements :
               last.res.satisfied[k] = Met(last.args.vr, k, last.args.requirements[k])
        /\ last.res.continue_iteration =
               (/\ ~(\A k \in DOMAIN last.args.requirements :
                        Met(last.args.vr, k, last.args.requirements[k]))
                /\ last.args.current_iteration < last.args.max_iterations)

\* a call with a number exactly at the threshold for one requirement and a
\* string for the other: both are marked unsatisfied
C15_Witness ==
    /\ Evaluated
    /\ last.args.requirements = [k \in ReqKeys |-> TRUE]
    /\ last.args.vr = [k \in ReqKeys |-> IF k = "quality" THEN JNum(Threshold) ELSE JStr]
    /\ last.res.satisfied = [k \in ReqKeys |-> FALSE]

\* the committed documents of the workflows
Saved == {id \in DOMAIN committed : Readable(committed, id)}

\* C14: over VerificationComplete handlings current_iteration never
\* decreases, grows by at most one per handling and only when the handling
\* decided to continue, and never exceeds max_iterations
C14_IterationBounded ==
    /\ [](\A id \in Saved :
            committed[id].current_iteration <= committed[id].max_iterations)
    /\ [][\A id \in Saved :
            /\ committed'[id].current_iteration >= committed[id].current_iteration
            /\ committed'[id].current_iteration <= committed[id].current_iteration + 1
            /\ committed'[id].current_iteration > committed[id].current_iteration
                  => \E t \in Threads :
                        pc[t] = "vc_write" /\ loc[t].continue_iteration]_vars

\* a handling with the feedback loop enabled returns Ok at this step
HandledOk ==
    /\ last'.op = "handle_verification_complete"
    /\ last'.id \in Ids
    /\ last'.res = "Ok"

\* C16: a VerificationComplete handling with the feedback loop enabled
\* appends exactly one IterationState with the iteration number in force on
\* arrival, and no entry of the history is changed, removed or reordered
C16_HistoryAppended ==
    [][/\ \A id \in Saved :
            /\ IsPrefix(committed[id].iteration_history,
                        committed'[id].iteration_history)
            /\ \A t \in Threads :
                 (pc[t] = "vc_write" /\ pc'[t] = "vc_dispatch" /\ loc[t].id = id) =>
                    LET h == committed'[id].iteration_history IN
                    /\ Len(h) = Len(committed[id].iteration_history) + 1
                    /\ h[Len(h)].iteration_number =
                          IF loc[t].continue_iteration
                          THEN committed'[id].current_iteration - 1
                          ELSE committed'[id].current_iteration
       /\ HandledOk => \E t \in Threads : pc[t] \in {"vc_dispatch", "vc_ret"} /\ pc'[t] = "idle"
      ]_vars

\* the events of the two paths under the standard mappings
NextEvent(continue_iteration) ==
    Custom(get_next_event(FeedbackLoopMappings,
               IF continue_iteration THEN DOCS_VERIFICATION_COMPLETE
               ELSE DOCS_ITERATION_DECISION), TRUE)

\* C17: a VerificationComplete handling with the feedback loop enabled
\* persists the state and then dispatches exactly one event, of the
\* refinement loop when it continues and of the completion path when not;
\* it dispatches nothing before the state is persisted
C17_PersistThenDispatch ==
    [][/\ HandledOk => \E t \in Threads : pc[t] = "vc_ret" /\ pc'[t] = "idle"
       /\ \A t \in Threads :
            (pc[t] # "emitting" /\ pc'[t] = "emitting" /\ loc'[t].id \in Ids) =>
                /\ pc[t] = "vc_dispatch"
                /\ em'[t].ev = NextEvent(loc[t].continue_iteration)
       /\ \A t \in Threads :
            (pc[t] = "vc_dispatch" /\ pc'[t] # "vc_dispatch") => pc'[t] = "emitting"
      ]_vars

\* the threads that are inside handle_execute_event, past the validation
Running(t) ==
    /\ loc[t].op = "handle_execute_event"
    /\ pc[t] \in {"rn_exec", "rn_finish", "emitting", "rn_ret"}

\* a handling of an Execute batch ends with ValidationError at this step
Refused == last'.op = "handle_execute_event" /\ last'.res = "ValidationError"

\* C18: when an operation of an Execute batch fails validation the handling
\* aborts before any documentation file is created, overwritten or deleted:
\* operations are executed and ExecutionComplete is emitted only for a batch
\* of which every operation passed validation before the first was executed
C18_ValidateAllFirst ==
    [][/\ \A t \in Threads :
            (Idle(t) /\ pc'[t] \in {"rn_exec", "rn_finish"}) =>
                \A i \in 1..Len(loc'[t].run.operations) :
                    validate_operation(loc'[t].run.operations[i], disk) = "Ok"
       /\ disk' # disk => \E t \in Threads : pc[t] = "rn_exec"
       /\ \A t \in Threads :
            (pc[t] # "emitting" /\ pc'[t] = "emitting"
                /\ em'[t].ev.key = DOCS_EXECUTION_COMPLETE) => pc[t] = "rn_finish"
       /\ Refused => disk' = disk /\ em' = em /\ pc' = pc
      ]_vars

\* a batch was refused for its second operation; the first, a valid create,
\* was not executed
C18_Witness ==
    /\ last.op = "handle_execute_event"
    /\ last.res = "ValidationError"
    /\ Len(last.refused) = 2
    /\ last.refused[1].operation_type = "create"
    /\ validate_operation(last.refused[1], disk) = "Ok"
    /\ validate_operation(last.refused[2], disk) # "Ok"
    /\ last.refused[1].target_path \notin DOMAIN disk

\* C19: a batch that fails validation is reported as an error to the caller
\* that emitted Execute: what the emit gets back from the runner is not Ok
C19_ErrorReported ==
    (last.op = "handle_execute_event" /\ last.res = "ValidationError")
        => last.closure # "Ok"

\* the entries of the log with a status
WithStatus(log, status) == {i \in 1..Len(log) : log[i].status = status}

\* C20: in a validated batch that is no dry run every operation is executed
\* on its own: a failure is logged with status failure and a message and
\* counted as failed, the later operations are still executed, the log has
\* one entry per operation in batch order, and the three counters add up to
\* the number of operations
C20_EachExecuted ==
    \A t \in Threads :
        (Running(t) /\ ~loc[t].run.dry_run) =>
            LET run == loc[t].run
                log == run.log
            IN /\ Len(log) = run.next - 1
               /\ pc[t] # "rn_exec" => Len(log) = Len(run.operations)
               /\ \A i \in 1..Len(log) :
                    /\ log[i].operation_type = run.operations[i].operation_type
                    /\ log[i].target_path = run.operations[i].target_path
                    /\ log[i].status \in {"success", "failure"}
                    /\ log[i].status = "failure" => log[i].error_message # <<>>
               /\ run.results.successful_operations = Cardinality(WithStatus(log, "success"))
               /\ run.results.failed_operations = Cardinality(WithStatus(log, "failure"))
               /\ run.results.successful_operations + run.results.failed_operations
                    + run.results.skipped_operations = Len(log)

\* a batch of two is through: the first operation failed, the second was
\* executed all the same
C20_Witness ==
    \E t \in Threads :
        /\ pc[t] = "rn_finish"
        /\ ~loc[t].run.dry_run
        /\ Len(loc[t].run.operations) = 2
        /\ Len(loc[t].run.log) = 2
        /\ loc[t].run.log[1].status = "failure"
        /\ loc[t].run.log[2].status = "success"
        /\ loc[t].run.results.failed_operations = 1
        /\ loc[t].run.results.successful_operations = 1

\* C21: an operation the runner executes successfully meets its
\* precondition at the moment it is executed: the target of a create does
\* not exist, the target of an update or delete exists
C21_PreconditionAtExecution ==
    [][\A t \in Threads :
          (pc[t] = "rn_exec" /\ Len(loc'[t].run.log) = Len(loc[t].run.log) + 1) =>
             LET op == loc[t].run.operations[loc[t].run.next]
                 e == loc'[t].run.log[Len(loc'[t].run.log)]
             IN e.status = "success" =>
                  /\ op.operation_type = "create" => op.target_path \notin DOMAIN disk
                  /\ op.operation_type \in {"update", "delete"} =>
                        op.target_path \in DOMAIN disk
      ]_vars

\* the operations whose execution writes their content
WritesContent(op) ==
    CASE op.variant = "Content" -> op.operation_type \in {"create", "update"}
      [] op.variant = "Structure" ->
            op.operation_type \in {"update_sidebar", "update_navigation"}
      [] op.variant = "Ui" ->
            op.operation_type \in {"update_component", "add_component"}
      [] op.variant = "Css" -> op.operation_type \in {"update_style", "add_style"}

Validated == last.op = "validate_operation" /\ last.stage # "called"
Executed == last.op = "validate_operation" /\ last.stage = "executed"

\* C22: validate_operation enforces the preconditions of every variant: an
\* operation that passed validation and writes a content has one, and no
\* operation that passed validation fails at execution for a missing content
C22_PreconditionsEnforced ==
    /\ (Validated /\ last.res = "Ok" /\ WritesContent(last.args))
          => last.args.content # <<>>
    /\ Executed => last.message # ContentRequired

\* C23: validate_operation rejects every operation whose target_path
\* contains "..", whatever its variant and type, and no such operation is
\* executed
C23_DotDotRejected ==
    (Validated /\ HasDotDot(last.args.target_path))
        => last.res = "ValidationError" /\ ~Executed

\* a Ui operation of a supported type, with a content, on a name with two
\* dots in it was refused
C23_Witness ==
    /\ Validated
    /\ last.args.variant = "Ui"
    /\ last.args.operation_type = "add_component"
    /\ last.args.content # <<>>
    /\ last.args.target_path = <<"a", "..", "b">>
    /\ last.res = "ValidationError"

\* a dry run of thread t is being handled
DryRun(t) == loc[t].op = "handle_execute_event" /\ loc[t].run.dry_run

\* the log of a dry run: one skipped entry for each operation
SkippedLog(run) ==
    /\ Len(run.log) = Len(run.operations)
    /\ \A i \in 1..Len(run.operations) :
          /\ run.log[i].status = "skipped"
          /\ run.log[i].target_path = run.operations[i].target_path
          /\ run.log[i].operation_type = run.operations[i].operation_type
    /\ run.results.skipped_operations = Len(run.operations)
    /\ run.results.successful_operations = 0
    /\ run.results.failed_operations = 0

\* C24 (as amended): with dry_run = true, the handling of a batch that
\* passed validation never enters the execution loop and changes no file of
\* the documentation tree, and its log has one entry for each operation,
\* every entry skipped, and skipped counts the operations
C24_DryRunSkipsAll ==
    /\ [](\A t \in Threads : DryRun(t) => pc[t] # "rn_exec" /\ SkippedLog(loc[t].run))
    /\ [][\A t \in Threads : (DryRun(t) \/ DryRun(t)') => disk' = disk]_vars

\* a dry run of two operations is about to report its results
C24_Witness ==
    /\ DryRun(BusThread)
    /\ pc[BusThread] = "rn_finish"
    /\ Len(loc[BusThread].run.operations) = 2
    /\ loc[BusThread].run.operations[1].operation_type = "create"

\* C24 (as stated): with dry_run = true, the handling of any non-empty
\* batch yields a log of skipped entries: none ends with an error of the
\* validation and without a log
C24_DryRunAnyBatch ==
    ~(/\ last.op = "handle_execute_event"
      /\ last.dry_run
      /\ last.refused # <<>>
      /\ last.res = "ValidationError")

\* the string p without its last character
Front(p) == SubSeq(p, 1, Len(p) - 1)

\* name is prefix followed by something
Extends(name, prefix) == \E k \in 0..Len(name) : SubSeq(name, 1, k) = prefix

Matched == last.op = "matches_event_pattern" /\ last.res # "none"

\* C27: matches_event_pattern(name) is true exactly when some pattern ends
\* in "*" and name starts with the pattern without that "*", or does not end
\* in "*" and is the name; "docs-analyze-*" matches docs-analyze-content and
\* docs-analyze-ui and not docs-execute
C27_PatternMatch ==
    /\ Matched =>
         (last.res = "true" <=>
            \E i \in 1..Len(last.event_patterns) :
               LET p == last.event_patterns[i] IN
               \/ p # <<>> /\ p[Len(p)] = "*" /\ Extends(last.event_name, Front(p))
               \/ ~(p # <<>> /\ p[Len(p)] = "*") /\ p = last.event_name)
    /\ matches_event_pattern(<< <<"docs-", "analyze-", "*">> >>, DOCS_ANALYZE_CONTENT)
    /\ matches_event_pattern(<< <<"docs-", "analyze-", "*">> >>, DOCS_ANALYZE_UI)
    /\ ~matches_event_pattern(<< <<"docs-", "analyze-", "*">> >>, DOCS_EXECUTE)

\* the second of two patterns, one with "*", matched a longer name
C27_Witness ==
    /\ Matched
    /\ last.event_patterns = << <<"b">>, <<"a", "*">> >>
    /\ last.event_name = <<"a", "b">>
    /\ last.res = "true"

\* the modules of agent a that can handle ev
Matching(a, ev) ==
    {i \in 1..Len(a.behavior_modules) : can_handle_event(a.behavior_modules[i], ev)}
First(S) == CHOOSE i \in S : \A j \in S : i <= j

Processed == last.op = "process_event"

\* C25: process_event delegates to the first module whose can_handle_event
\* is true and returns its result; no later module is invoked; when no module
\* matches none is invoked and the result is Ok
C25_FirstMatchingModule ==
    Processed =>
       LET a == loc[BusThread].agent
           m == Matching(a, last.ev)
       IN IF m = {}
          THEN last.invoked = <<>> /\ last.res = "Ok"
          ELSE /\ last.invoked = <<First(m)>>
               /\ last.res = map_err(a.behavior_modules[First(m)].result)

\* two modules can handle the event, the first fails and the second would
\* not: the first was called
C25_Witness ==
    /\ Processed
    /\ Matching(loc[BusThread].agent, last.ev) = {1, 2}
    /\ loc[BusThread].agent.behavior_modules[1].result = "Err"
    /\ loc[BusThread].agent.behavior_modules[2].result = "Ok"
    /\ last.res = "BehaviorModuleError"

\* C26: after initialize(), an event emitted under a subscribed name is
\* processed with the modules that were added to the agent: the first
\* module that can handle it has its process_event invoked
C26_EmittedEventProcessed ==
    (/\ last.op = "emit"
     /\ pc[BusThread] = "initialized"
     /\ \E i \in 1..Len(loc[BusThread].agent.event_subscriptions) :
           loc[BusThread].agent.event_subscriptions[i] = EventName(last.ev)
     /\ Matching(loc[BusThread].agent, last.ev) # {})
    => \E i \in 1..Len(last.invoked) :
          last.invoked[i] = <<First(Matching(loc[BusThread].agent, last.ev))>>

Verified == last.op = "verify" /\ last.returned

\* the entries of the log that are relevant to check c and have status st
RelevantWith(c, st) ==
    {i \in 1..Len(last.execution_log) :
        type_filter(c, last.execution_log[i]) /\ last.execution_log[i].status = st}

\* C28: for each of the five checks, a log without relevant operation
\* makes the check count as skipped, not failed, with score 0.8, and a log
\* where relevant operations succeeded and none failed gives score 1.0
C28_SkippedOrFull ==
    Verified =>
       \A c \in {"content", "structure", "ui", "css", "technical"} :
          LET m == last.res.checks[c] IN
          /\ (\A i \in 1..Len(last.execution_log) : ~type_filter(c, last.execution_log[i]))
                => m.skipped = 1 /\ m.failed = 0 /\ m.quality_score = Partial
          /\ (RelevantWith(c, "success") # {} /\ RelevantWith(c, "failure") = {})
                => m.quality_score = Full

\* C29: the overall score is 0.4 content + 0.2 structure + 0.15 ui + 0.1 css
\* + 0.15 technical, every score lies between 0 and 1, and so does the
\* overall score (scores in hundredths, the overall one in ten-thousandths)
C29_OverallWeighted ==
    Verified =>
       LET q == [c \in DOMAIN last.res.checks |-> last.res.checks[c].quality_score] IN
       /\ \A c \in DOMAIN q : q[c] \in 0..Full
       /\ last.res.overall_quality =
             40 * q.content + 20 * q.structure + 15 * q.ui + 10 * q.css + 15 * q.technical
       /\ last.res.overall_quality \in 0..(Full * Full)

\* every check succeeded and the overall score is 1
C29_Witness ==
    /\ Verified
    /\ \A c \in DOMAIN last.res.checks : last.res.checks[c].status = "success"
    /\ last.res.overall_quality = Full * Full

\* C30: check_status maps each of content, structure, ui and css to true
\* exactly when the check of that category succeeded in this run
C30_CheckStatus ==
    Verified =>
       \A c \in Categories :
          last.res.check_status[c] <=> last.res.checks[c].status = "success"

Unexpired(id) == id \in DOMAIN locks /\ now - locks[id] < LockTimeout

Aged == {k \in DOMAIN last.before : now - last.before[k] >= LockTimeout}

\* C33: cleanup_expired_locks removes exactly the entries whose age is at
\* least the timeout, returns their number and leaves the other entries as
\* they are; after it lock_state succeeds for an id it removed and fails with
\* LockError for an id it left
C33_CleanupExact ==
    /\ (last.op = "cleanup_expired_locks" /\ last.stage = "returned") =>
          /\ DOMAIN locks = DOMAIN last.before \ Aged
          /\ \A k \in DOMAIN locks : locks[k] = last.before[k]
          /\ last.res = Cardinality(Aged)
    /\ (last.op = "lock_state" /\ last.id \in DOMAIN last.before) =>
          last.res = (IF last.id \in Aged THEN "Ok" ELSE "LockError")

\* of three entries the cleanup removed the one as old as the timeout, and
\* a younger one is still locked
C33_Witness ==
    /\ last.op = "lock_state"
    /\ DOMAIN last.before = LockIds
    /\ Cardinality(Aged) = 1
    /\ \E k \in Aged : now - last.before[k] = LockTimeout
    /\ last.id \notin Aged
    /\ last.res = "LockError"

\* C34: after set_first_system_message(c) the first message is a system
\* message with content c: an empty context gets it as its only message, a
\* first system message has its content replaced, and before any other
\* first message it is inserted, the earlier messages following in order
C34_FirstSystemMessage ==
    (last.op = "set_first_system_message" /\ last.returned) =>
       LET old == last.messages
           new == last.res
           sys == [variant |-> "ContentMessage", role |-> "System", content |-> last.content]
       IN /\ new # <<>>
          /\ new[1] = sys
          /\ IF old # <<>> /\ old[1].variant = "ContentMessage" /\ old[1].role = "System"
             THEN Len(new) = Len(old) /\ \A i \in 2..Len(old) : new[i] = old[i]
             ELSE Len(new) = Len(old) + 1 /\ \A i \in 1..Len(old) : new[i + 1] = old[i]

\* C35: an emit called from inside a handler that runs under emit on the
\* same EventSystem completes: the calling thread neither waits for ever on
\* the lock of the handler table nor panics on it
C35_NestedEmitCompletes ==
    \A t \in Threads : pc[t] \notin {"deadlocked", "panicked"}

\* C36: across the iterations of the feedback loop the required values of
\* the requirements stay what they were, and a requirement that is required
\* to be true and whose field is false in every VerificationComplete is
\* reported unsatisfied by every handling
C36_RequirementsKept ==
    last.op = "feedback_loop" =>
        /\ Readable(file, last.id) =>
              file[last.id].requirements_satisfied = last.required
        /\ last.reported # <<>> =>
              \A k \in last.unmet : last.required[k] => ~last.reported[1][k]

\* the second half of C36 on its own: the report of every handling
C36_ReportedUnsatisfied ==
    (last.op = "feedback_loop" /\ last.reported # <<>>) =>
        \A k \in last.unmet : last.required[k] => ~last.reported[1][k]

\* the iteration a workflow had before its first VerificationComplete: every
\* entry of the history was taken from a state without history
InitialIteration(id) ==
    IF committed[id].iteration_history = <<>> THEN committed[id].current_iteration
    ELSE committed[id].iteration_history[1].iteration_number

\* the handlings of id that are about to dispatch on the continue branch
Continuing(id) ==
    {t \in Threads : pc[t] = "vc_dispatch" /\ loc[t].id = id /\ loc[t].continue_iteration}

\* C37: for a workflow with current_iteration <= max_iterations the continue
\* branch is taken at most max_iterations - initial current_iteration times
C37_ContinueBounded ==
    \A id \in Saved :
        Cardinality(Continuing(id)) <=
            committed[id].max_iterations - InitialIteration(id)

\* the same bound for handlings that come one after another, with the
\* completion branch for every handling after the bound is used up
C37_SequentialBounded ==
    last.op = "feedback_loop" =>
        /\ last.continues <= last.budget
        /\ (last.exhausted /\ last.branch # "none") => last.branch = "complete"

\* the handlers that move a workflow to its next phase, and the status each
\* of them stores
PhaseHandlers == {"Start", "ContentAnalyzed", "DocusaurusAnalyzed"}
PhaseStatus(op) ==
    CASE op = "Start" -> "analyzing_content"
      [] op = "ContentAnalyzed" -> "analyzing_docusaurus"
      [] OTHER -> "analyzing_ui"
PhaseEvent(op) ==
    CASE op = "Start" -> DOCS_ANALYZE_CONTENT
      [] op = "ContentAnalyzed" -> DOCS_ANALYZE_DOCUSAURUS
      [] OTHER -> DOCS_ANALYZE_UI

\* update_state of id cannot succeed: the lock is held, or the file of the
\* workflow cannot be read
UpdateFails(id) == Unexpired(id) \/ (id \in DOMAIN file /\ ~Readable(file, id))

C38_Emitting ==
    /\ last.op = "ContentAnalyzed"
    /\ last.res = "emit"
    /\ \E t \in Threads : pc[t] = "emitting" /\ em[t].ev.key = DOCS_ANALYZE_DOCUSAURUS

\* no two pending tasks of the state are of one type
OnePendingPerType(st) ==
    \A i, j \in 1..Len(st.pending_tasks) :
        st.pending_tasks[i].task_type = st.pending_tasks[j].task_type => i = j

\* the status a state file holds
StatusIn(f, id) ==
    IF "status" \in DOMAIN f[id].metadata THEN f[id].metadata["status"] ELSE "none"

\* C39: a *Analyzed event delivered again, or delivered when the workflow is
\* in a later phase, leaves at most one pending task of each type and does
\* not move the status back to an earlier phase
C39_RepeatedDelivery ==
    [][\A id \in Ids :
        (/\ last'.op \in AnalyzedPayloads
         /\ last'.id = id
         /\ Readable(file, id)
         /\ Readable(file', id))
        => /\ OnePendingPerType(file[id]) => OnePendingPerType(file'[id])
           /\ PhaseRank(StatusIn(file', id)) >= PhaseRank(StatusIn(file, id))]_vars

\* the two halves of C39, each on its own
C39_OnePending ==
    [][\A id \in Ids :
        (/\ last'.op \in AnalyzedPayloads
         /\ last'.id = id
         /\ Readable(file, id)
         /\ Readable(file', id))
        => (OnePendingPerType(file[id]) => OnePendingPerType(file'[id]))]_vars

C39_StatusForward ==
    [][\A id \in Ids :
        (/\ last'.op \in AnalyzedPayloads
         /\ last'.id = id
         /\ Readable(file, id)
         /\ Readable(file', id))
        => PhaseRank(StatusIn(file', id)) >= PhaseRank(StatusIn(file, id))]_vars

\* C40: when the handling of an Execute event aborts because an operation
\* fails validation, the persisted state of the workflow, its status
\* included, is what it was before the event was handled
C40_RefusedUnchanged ==
    [][Refused => (file' = file /\ committed' = committed)]_vars

====
